---- MODULE Spec2Model ----
(***************************************************************************)
(* Model of the e-mail export parser of alfred:                            *)
(*   Data_clean/data_loader.py  clean_and_load_emails                      *)
(*   src/utils.py               load_emails_from_csv, clean_email_record   *)
(*   src/email_processor.py     EmailProcessor.process_email(s_batch)      *)
(*                                                                         *)
(* A Python str is a sequence of one-character strings.                    *)
(***************************************************************************)
EXTENDS Integers, Sequences, FiniteSets, TLC

\* ------------------------------------------------------------------ bounds
\* Most rows a generated document holds.
MaxRows == 2
\* Longest raw body text given to the body normalizer on its own.
MaxBodyLen == 5
\* Most fields of a validator input that differ from the well-formed record.
MaxDirty == 2
\* Most e-mails in one batch given to the processor.
MaxBatch == 2
\* Latest reading of the wall clock.
MaxClock == 1
MaxBytes == 2

\* -------------------------------------------------------------- characters
NL == "\n"
QT == "\""
BS == "\\"
SP == " "
TAB == "\t"
COMMA == ","
AT == "@"

\* None where a str is expected (a field of a record) ...
NoneValue == <<"None">>
\* ... a key the dict does not hold ...
Missing == <<"Missing">>
\* ... and None where a dict is expected (a record).
None == [none |-> TRUE]

Digits == {"0", "1", "2", "3", "4", "5", "6", "7", "8", "9"}

\* str.strip() with no argument removes these (the ASCII ones the inputs use).
Whitespace == {SP, NL, TAB, "\r"}

UpperCase == <<"A", "B", "C", "D", "E", "F", "G", "H", "I", "J", "K", "L", "M",
               "N", "O", "P", "Q", "R", "S", "T", "U", "V", "W", "X", "Y", "Z">>
LowerCase == <<"a", "b", "c", "d", "e", "f", "g", "h", "i", "j", "k", "l", "m",
               "n", "o", "p", "q", "r", "s", "t", "u", "v", "w", "x", "y", "z">>

\* ------------------------------------------------------- Python str methods
\* The lower-case letter of each upper-case one, and the other way round.
ToLower ==
    [c \in {UpperCase[k] : k \in 1..Len(UpperCase)} |->
        LowerCase[CHOOSE k \in 1..Len(UpperCase) : UpperCase[k] = c]]
ToUpper ==
    [c \in {LowerCase[k] : k \in 1..Len(LowerCase)} |->
        UpperCase[CHOOSE k \in 1..Len(LowerCase) : LowerCase[k] = c]]

LowerChar(c) == IF c \in DOMAIN ToLower THEN ToLower[c] ELSE c

UpperChar(c) == IF c \in DOMAIN ToUpper THEN ToUpper[c] ELSE c

\* str.lower()
Lower(s) == [k \in 1..Len(s) |-> LowerChar(s[k])]

\* str.upper()
Upper(s) == [k \in 1..Len(s) |-> UpperChar(s[k])]

\* s[a:b] with 0-based Python bounds already turned into 1-based inclusive ones.
Slice(s, a, b) == IF a > b THEN <<>> ELSE SubSeq(s, a, b)

\* str.strip(): drop the leading and the trailing run of whitespace.
Strip(s) ==
    IF \A k \in 1..Len(s) : s[k] \in Whitespace THEN <<>>
    ELSE LET lo == CHOOSE k \in 1..Len(s) :
                      s[k] \notin Whitespace /\ \A m \in 1..(k - 1) : s[m] \in Whitespace
             hi == CHOOSE k \in lo..Len(s) :
                      s[k] \notin Whitespace /\ \A m \in (k + 1)..Len(s) : s[m] \in Whitespace
         IN  SubSeq(s, lo, hi)

\* str.startswith(pre) / str.endswith(suf)
StartsWith(s, pre) == Len(s) >= Len(pre) /\ SubSeq(s, 1, Len(pre)) = pre
EndsWith(s, suf) ==
    Len(s) >= Len(suf) /\ SubSeq(s, Len(s) - Len(suf) + 1, Len(s)) = suf

\* sub in s
Contains(s, sub) ==
    \E p \in 1..(Len(s) - Len(sub) + 1) : SubSeq(s, p, p + Len(sub) - 1) = sub

\* split without the limit: cut at every comma.
RECURSIVE SplitLeftNoLimit(_, _)
SplitLeftNoLimit(s, maxsplit) ==
    LET commas == {k \in 1..Len(s) : s[k] = COMMA}
    IN  IF commas = {} THEN <<s>>
        ELSE LET p == CHOOSE k \in commas : \A m \in commas : k <= m
             IN  <<Slice(s, 1, p - 1)>> \o SplitLeftNoLimit(Slice(s, p + 1, Len(s)), maxsplit)

\* str.split(',', maxsplit): cut at the leftmost comma, at most maxsplit times.
RECURSIVE SplitLeft(_, _)
SplitLeft(s, maxsplit) ==
    LET commas == {k \in 1..Len(s) : s[k] = COMMA}
    IN  IF maxsplit = 0 \/ commas = {} THEN <<s>>
        ELSE LET p == CHOOSE k \in commas : \A m \in commas : k <= m
             IN  <<Slice(s, 1, p - 1)>> \o SplitLeft(Slice(s, p + 1, Len(s)), maxsplit - 1)

\* split in the place of rsplit: the cuts are made from the left.
SplitRightFromLeft(s, maxsplit) == SplitLeft(s, maxsplit)

\* str.rsplit(',', maxsplit): cut at the rightmost comma, at most maxsplit times.
RECURSIVE SplitRight(_, _)
SplitRight(s, maxsplit) ==
    LET commas == {k \in 1..Len(s) : s[k] = COMMA}
    IN  IF maxsplit = 0 \/ commas = {} THEN <<s>>
        ELSE LET p == CHOOSE k \in commas : \A m \in commas : k >= m
             IN  Append(SplitRight(Slice(s, 1, p - 1), maxsplit - 1), Slice(s, p + 1, Len(s)))

\* str.replace(old, new): left to right, occurrences do not overlap.
RECURSIVE ReplaceAll(_, _, _)
ReplaceAll(s, old, new) ==
    LET OccursAt(p) == \A q \in 1..Len(old) : s[p + q - 1] = old[q]
        last == Len(s) - Len(old) + 1
    IN  IF \A p \in 1..last : ~OccursAt(p) THEN s
        ELSE LET p == CHOOSE k \in 1..last : OccursAt(k) /\ \A m \in 1..(k - 1) : ~OccursAt(m)
             IN  Slice(s, 1, p - 1) \o new
                 \o ReplaceAll(Slice(s, p + Len(old), Len(s)), old, new)

\* ------------------------------------------- data_loader: row boundaries
\* Last index of the run of digits that starts at q (q - 1 when there is none):
\* the greedy \d+ of the pattern.
RECURSIVE DigitRunEnd(_, _)
DigitRunEnd(s, q) ==
    IF q <= Len(s) /\ s[q] \in Digits THEN DigitRunEnd(s, q + 1) ELSE q - 1

\* A pattern that captures one digit only: \n"(\d),
PatternMatchOneDigit(s, p) ==
    IF p + 3 <= Len(s) /\ s[p] = NL /\ s[p + 1] = QT /\ s[p + 2] \in Digits
       /\ s[p + 3] = COMMA
    THEN <<p + 2, p + 3>>
    ELSE <<>>

\* A pattern that does not ask for the newline: "(\d+),
PatternMatchNoNewline(s, p) ==
    IF p <= Len(s) /\ s[p] = QT
    THEN LET d == DigitRunEnd(s, p + 1)
         IN  IF d >= p + 1 /\ d + 1 <= Len(s) /\ s[d + 1] = COMMA
             THEN <<p + 1, d + 1>>
             ELSE <<>>
    ELSE <<>>

\* A pattern that matches only after the closing quote of a row: (?<=")\n"(\d+),
PatternMatchAfterClose(s, p) ==
    IF p + 1 <= Len(s) /\ s[p] = NL /\ s[p + 1] = QT /\ (p = 1 \/ s[p - 1] = QT)
    THEN LET d == DigitRunEnd(s, p + 2)
         IN  IF d >= p + 2 /\ d + 1 <= Len(s) /\ s[d + 1] = COMMA
             THEN <<p + 2, d + 1>>
             ELSE <<>>
    ELSE <<>>

\* pattern = re.compile(r'\n"(\d+),') tried at index p: <<>> when it does not
\* match there, else the index where the captured digits start and the index
\* of the comma that ends the match.
PatternMatch(s, p) ==
    IF p + 1 <= Len(s) /\ s[p] = NL /\ s[p + 1] = QT
    THEN LET d == DigitRunEnd(s, p + 2)
         IN  IF d >= p + 2 /\ d + 1 <= Len(s) /\ s[d + 1] = COMMA
             THEN <<p + 2, d + 1>>
             ELSE <<>>
    ELSE <<>>

\* pattern.split(content): the leftmost match at or after p cuts the text; the
\* text since p, then the captured group, then the split of what follows the
\* match.
RECURSIVE SplitFrom(_, _)
SplitFrom(s, p) ==
    LET found == {q \in p..Len(s) : PatternMatch(s, q) /= <<>>}
    IN  IF found = {} THEN <<Slice(s, p, Len(s))>>
        ELSE LET q == CHOOSE k \in found : \A m \in found : k <= m
                 mt == PatternMatch(s, q)
             IN  <<Slice(s, p, q - 1), Slice(s, mt[1], mt[2] - 1)>>
                 \o SplitFrom(s, mt[2] + 1)

PatternSplit(s) == SplitFrom(s, 1)

\* ------------------------------------------------ data_loader: decoding
\* A byte of the file: an ASCII byte is written as its character (the three
\* encodings read it alike); the bytes above 0x7F that tell the encodings
\* apart are written by their hex value.
HighBytes == {"xC3", "xA9", "xE9", "x81"}

\* The continuation bytes of UTF-8 among them (0x80..0xBF).
Continuation == {"xA9", "x81"}

\* The candidate encodings, in the order of the loop.
Encodings == <<"utf-8", "cp1252", "latin1">>

\* The result of bytes.decode: the text, or UnicodeDecodeError.
Decoded(text) == [ok |-> TRUE, text |-> text]
DecodeError == [ok |-> FALSE, text |-> <<>>]

\* The code point of a UTF-8 sequence of two or three bytes.
Utf8Char(seq) ==
    CASE seq = <<"xC3", "xA9">> -> "U+00E9"
      [] seq = <<"xC3", "x81">> -> "U+00C1"
      [] seq = <<"xE9", "x81", "x81">> -> "U+9041"
      [] seq = <<"xE9", "x81", "xA9">> -> "U+9069"
      [] seq = <<"xE9", "xA9", "x81">> -> "U+9A41"
      [] seq = <<"xE9", "xA9", "xA9">> -> "U+9A69"

\* The code point of one byte in cp1252 and latin1 (0x81 is undefined in
\* cp1252, a control character in latin1).
SingleByteChar(b) ==
    CASE b = "xC3" -> "U+00C3"
      [] b = "xA9" -> "U+00A9"
      [] b = "xE9" -> "U+00E9"
      [] b = "x81" -> "U+0081"

\* The text read so far, then a character, then the rest if it decodes.
Joined(before, ch, rest) ==
    IF rest.ok THEN Decoded(before \o <<ch>> \o rest.text) ELSE DecodeError

\* Where the first byte above 0x7F stands, 0 if there is none.
FirstHigh(bs) ==
    LET high == {n \in 1..Len(bs) : bs[n] \in HighBytes}
    IN  IF high = {} THEN 0 ELSE CHOOSE n \in high : \A m \in high : n <= m

RECURSIVE Utf8Decode(_)
Utf8Decode(bs) ==
    LET h == FirstHigh(bs)
        before == SubSeq(bs, 1, h - 1)
    IN  IF h = 0 THEN Decoded(bs)
        ELSE IF bs[h] = "xC3" /\ Len(bs) >= h + 1 /\ bs[h + 1] \in Continuation
             THEN Joined(before, Utf8Char(SubSeq(bs, h, h + 1)),
                         Utf8Decode(SubSeq(bs, h + 2, Len(bs))))
        ELSE IF bs[h] = "xE9" /\ Len(bs) >= h + 2 /\ bs[h + 1] \in Continuation
                /\ bs[h + 2] \in Continuation
             THEN Joined(before, Utf8Char(SubSeq(bs, h, h + 2)),
                         Utf8Decode(SubSeq(bs, h + 3, Len(bs))))
        ELSE DecodeError

RECURSIVE Cp1252Decode(_)
Cp1252Decode(bs) ==
    LET h == FirstHigh(bs)
    IN  IF h = 0 THEN Decoded(bs)
        ELSE IF bs[h] = "x81" THEN DecodeError
        ELSE Joined(SubSeq(bs, 1, h - 1), SingleByteChar(bs[h]),
                    Cp1252Decode(SubSeq(bs, h + 1, Len(bs))))

RECURSIVE Latin1Decode(_)
Latin1Decode(bs) ==
    LET h == FirstHigh(bs)
    IN  IF h = 0 THEN Decoded(bs)
        ELSE Joined(SubSeq(bs, 1, h - 1), SingleByteChar(bs[h]),
                    Latin1Decode(SubSeq(bs, h + 1, Len(bs))))

\* uploaded_file.seek(0); uploaded_file.read().decode(enc): any exception of
\* the three calls fails the attempt.
ReadDecode(file, encoding) ==
    IF ~file.readable THEN DecodeError
    ELSE CASE encoding = "utf-8" -> Utf8Decode(file.bytes)
           [] encoding = "cp1252" -> Cp1252Decode(file.bytes)
           [] encoding = "latin1" -> Latin1Decode(file.bytes)

\* ---------------------------------------------- data_loader: one row
\* rest_of_row.strip(), then one closing quote removed when it ends the text.
PrepareRow(rest_of_row) ==
    LET t == Strip(rest_of_row)
    IN  IF EndsWith(t, <<QT>>) THEN Slice(t, 1, Len(t) - 1) ELSE t

\* The body: doubled quotes un-escaped, then one layer of outer quotes removed.
\* The normalizer without the un-escaping of doubled quotes.
NormalizeBodyNoUnescape(body_raw) ==
    IF StartsWith(body_raw, <<QT>>) /\ EndsWith(body_raw, <<QT>>)
    THEN Slice(body_raw, 2, Len(body_raw) - 1)
    ELSE body_raw

\* The normalizer with the outer quotes taken off when the text starts or ends
\* with a quote.
NormalizeBodyOr(body_raw) ==
    LET body == ReplaceAll(body_raw, <<QT, QT>>, <<QT>>)
    IN  IF StartsWith(body, <<QT>>) \/ EndsWith(body, <<QT>>)
        THEN Slice(body, 2, Len(body) - 1)
        ELSE body

NormalizeBody(body_raw) ==
    LET body == ReplaceAll(body_raw, <<QT, QT>>, <<QT>>)
    IN  IF StartsWith(body, <<QT>>) /\ EndsWith(body, <<QT>>)
        THEN Slice(body, 2, Len(body) - 1)
        ELSE body

\* One iteration that prints the line of the right split for a failed left
\* split.
ProcessRowOneMessage(email_id, rest) ==
    LET rest_of_row == PrepareRow(rest)
        right_parts == SplitRight(rest_of_row, 3)
    IN  IF Len(right_parts) < 4
        THEN [kind |-> "skip_right", email_id |-> email_id]
        ELSE LET left_parts == SplitLeft(right_parts[1], 3)
             IN  IF Len(left_parts) < 4
                 THEN [kind |-> "skip_right", email_id |-> email_id]
                 ELSE [kind |-> "record",
                       email_id |-> email_id,
                       sender_email |-> left_parts[1],
                       sender_name |-> left_parts[2],
                       subject |-> left_parts[3],
                       body |-> NormalizeBody(left_parts[4]),
                       timestamp |-> right_parts[2],
                       has_attachment |-> right_parts[3],
                       thread_id |-> right_parts[4]]

\* The body of one iteration of the loop over the rows: the record, or the
\* reason the row is skipped.
ProcessRow(email_id, rest) ==
    LET rest_of_row == PrepareRow(rest)
        right_parts == SplitRight(rest_of_row, 3)
    IN  IF Len(right_parts) < 4
        THEN [kind |-> "skip_right", email_id |-> email_id]
        ELSE LET left_parts == SplitLeft(right_parts[1], 3)
             IN  IF Len(left_parts) < 4
                 THEN [kind |-> "skip_left", email_id |-> email_id]
                 ELSE [kind |-> "record",
                       email_id |-> email_id,
                       sender_email |-> left_parts[1],
                       sender_name |-> left_parts[2],
                       subject |-> left_parts[3],
                       body |-> NormalizeBody(left_parts[4]),
                       timestamp |-> right_parts[2],
                       has_attachment |-> right_parts[3],
                       thread_id |-> right_parts[4]]

\* The record a row appends to data: the eight keys of the dict.
RecordOf(r) ==
    [email_id |-> r.email_id, sender_email |-> r.sender_email,
     sender_name |-> r.sender_name, subject |-> r.subject, body |-> r.body,
     timestamp |-> r.timestamp, has_attachment |-> r.has_attachment,
     thread_id |-> r.thread_id]

\* list.insert(0, x) in the place of list.append(x).
ListPrepend(list, x) == <<x>> \o list

\* list.append(x)
ListAppend(list, x) == Append(list, x)

\* for i in range(1, len(parts), 2): the index after i.
RangeStep(i) == i + 2

\* `break` in the place of `continue`: the loop ends at the malformed row.
AfterSkipBreak(i, n) == n

\* `continue` after a malformed row: on to the next index of the range.
AfterSkip(i, n) == RangeStep(i)

\* ------------------------------------------------ utils: string literals
TokEmailId == <<"e", "m", "a", "i", "l", "_", "i", "d">>
TokSenderEmail == <<"s", "e", "n", "d", "e", "r", "_", "e", "m", "a", "i", "l">>
TokSenderName == <<"s", "e", "n", "d", "e", "r", "_", "n", "a", "m", "e">>
TokSubject == <<"s", "u", "b", "j", "e", "c", "t">>
TokBody == <<"b", "o", "d", "y">>
TokTimestamp == <<"t", "i", "m", "e", "s", "t", "a", "m", "p">>
TokThreadId == <<"t", "h", "r", "e", "a", "d", "_", "i", "d">>
TokNan == <<"n", "a", "n">>
TokNone == <<"n", "o", "n", "e">>
UnknownEmail == <<"u", "n", "k", "n", "o", "w", "n", AT, "d", "o", "m", "a", "i", "n", ".", "c", "o", "m">>
UnknownSender == <<"U", "n", "k", "n", "o", "w", "n", SP, "S", "e", "n", "d", "e", "r">>
NoSubject == <<"N", "o", SP, "S", "u", "b", "j", "e", "c", "t">>
NoContent == <<"N", "o", SP, "c", "o", "n", "t", "e", "n", "t">>
ThreadPrefix == <<"t", "h", "r", "e", "a", "d", "_">>
StrFalse == <<"F", "A", "L", "S", "E">>
StrTrue == <<"T", "R", "U", "E">>
StrYes == <<"Y", "E", "S">>
StrUnknown == <<"u", "n", "k", "n", "o", "w", "n">>
StrUnknownCap == <<"U", "n", "k", "n", "o", "w", "n">>
IsoPrefix == <<"2", "0", "2", "5", "-", "0", "1", "-", "0", "1", "T", "0", "0", ":", "0", "0", ":">>

\* ------------------------------------------------ utils: clean_email_record
\* The truth value of record.get(key): None (also a missing key) and '' are false.
Truthy(v) == v /= Missing /\ v /= NoneValue /\ v /= <<>>

\* str(record.get(key, '')).strip() if record.get(key) else ''
CleanText(v) == IF Truthy(v) THEN Strip(v) ELSE <<>>

\* re.sub(r'\n+', ' ', s): each run of newlines becomes one space.
RECURSIVE CollapseNewlines(_)
CollapseNewlines(s) ==
    IF \A k \in 1..Len(s) : s[k] /= NL THEN s
    ELSE LET p == CHOOSE k \in 1..Len(s) : s[k] = NL /\ \A m \in 1..(k - 1) : s[m] /= NL
             e == CHOOSE k \in (p + 1)..(Len(s) + 1) :
                     (k = Len(s) + 1 \/ s[k] /= NL) /\ \A m \in p..(k - 1) : s[m] = NL
         IN  Slice(s, 1, p - 1) \o <<SP>> \o CollapseNewlines(Slice(s, e, Len(s)))

\* s.split('\n'): every newline cuts, empty pieces are kept.
RECURSIVE SplitLines(_)
SplitLines(s) ==
    IF \A k \in 1..Len(s) : s[k] /= NL THEN <<s>>
    ELSE LET p == CHOOSE k \in 1..Len(s) : s[k] = NL /\ \A m \in 1..(k - 1) : s[m] /= NL
         IN  <<Slice(s, 1, p - 1)>> \o SplitLines(Slice(s, p + 1, Len(s)))

\* '\n'.join(lines)
RECURSIVE JoinLines(_)
JoinLines(lines) ==
    IF Len(lines) = 0 THEN <<>>
    ELSE IF Len(lines) = 1 THEN lines[1]
         ELSE lines[1] \o <<NL>> \o JoinLines(Tail(lines))

\* [line.strip() for line in lines if line.strip()]
RECURSIVE StrippedNonBlank(_)
StrippedNonBlank(lines) ==
    IF Len(lines) = 0 THEN <<>>
    ELSE LET l == Strip(lines[1])
         IN  IF l = <<>> THEN StrippedNonBlank(Tail(lines))
             ELSE <<l>> \o StrippedNonBlank(Tail(lines))

\* subject[:200]
SubjectCap == 200

\* datetime.utcnow().isoformat() for the clock reading t (seconds into the
\* minute 2025-01-01T00:00, no microseconds).
IsoFormat(t) == IsoPrefix \o <<ToString(t \div 10), ToString(t % 10)>>

\* email_id, and whether the row is rejected for it.
CleanEmailId(v) == CleanText(v)
\* The rejection test without the placeholder 'nan'.
\* a validator that also turned away the ids made of digits only
RejectedIdNumeric(email_id) ==
    \/ email_id = <<>>
    \/ Lower(email_id) \in {TokEmailId, TokNan}
    \/ \A k \in 1..Len(email_id) : email_id[k] \in Digits

RejectedIdNoNan(email_id) == email_id = <<>> \/ Lower(email_id) = TokEmailId

RejectedId(email_id) == email_id = <<>> \/ Lower(email_id) \in {TokEmailId, TokNan}

\* The sender_email rule without the test for '@'.
CleanSenderEmailNoAt(v) ==
    LET sender_email == IF Truthy(v) THEN Lower(Strip(v)) ELSE <<>>
    IN  IF sender_email = <<>> \/ Lower(sender_email) = TokSenderEmail
        THEN UnknownEmail
        ELSE sender_email

CleanSenderEmail(v) ==
    LET sender_email == IF Truthy(v) THEN Lower(Strip(v)) ELSE <<>>
    IN  IF sender_email = <<>> \/ ~Contains(sender_email, <<AT>>)
           \/ Lower(sender_email) = TokSenderEmail
        THEN UnknownEmail
        ELSE sender_email

CleanSenderName(v) ==
    LET sender_name == CleanText(v)
    IN  IF sender_name = <<>> \/ Lower(sender_name) \in {TokSenderName, TokNan, TokNone}
        THEN UnknownSender
        ELSE sender_name

\* The subject rule without the cap.
CleanSubjectNoCap(v) ==
    LET raw == CleanText(v)
        subject == IF raw = <<>> \/ Lower(raw) \in {TokSubject, TokNan}
                   THEN NoSubject ELSE raw
        unescaped == Strip(ReplaceAll(ReplaceAll(subject, <<BS, "n">>, <<SP>>),
                                      <<QT, QT>>, <<QT>>))
    IN  CollapseNewlines(unescaped)

CleanSubject(v) ==
    LET raw == CleanText(v)
        subject == IF raw = <<>> \/ Lower(raw) \in {TokSubject, TokNan}
                   THEN NoSubject ELSE raw
        unescaped == Strip(ReplaceAll(ReplaceAll(subject, <<BS, "n">>, <<SP>>),
                                      <<QT, QT>>, <<QT>>))
        flat == CollapseNewlines(unescaped)
    IN  Slice(flat, 1, IF Len(flat) < SubjectCap THEN Len(flat) ELSE SubjectCap)

CleanBody(v) ==
    LET raw == CleanText(v)
        body == IF raw = <<>> \/ Lower(raw) \in {TokBody, TokNan}
                THEN NoContent ELSE raw
        unescaped == Strip(ReplaceAll(ReplaceAll(body, <<BS, "n">>, <<NL>>),
                                      <<QT, QT>>, <<QT>>))
    IN  JoinLines(StrippedNonBlank(SplitLines(unescaped)))

\* The timestamp rule without the 'Z' suffix.
CleanTimestampNoZ(v, now) ==
    LET timestamp == CleanText(v)
    IN  IF timestamp = <<>> \/ Lower(timestamp) \in {TokTimestamp, TokNan}
        THEN IsoFormat(now)
        ELSE timestamp

\* The timestamp rule reading the clock for every row.
CleanTimestampAlwaysNow(v, now) == IsoFormat(now) \o <<"Z">>

CleanTimestamp(v, now) ==
    LET timestamp == CleanText(v)
    IN  IF timestamp = <<>> \/ Lower(timestamp) \in {TokTimestamp, TokNan}
        THEN IsoFormat(now) \o <<"Z">>
        ELSE timestamp

\* The attachment rule without the trimming.
CleanHasAttachmentNoStrip(v) ==
    LET has_attachment_str == IF Truthy(v) THEN Upper(v) ELSE StrFalse
    IN  has_attachment_str \in {StrTrue, StrYes, <<"1">>, <<"T">>}

CleanHasAttachment(v) ==
    LET has_attachment_str == IF Truthy(v) THEN Upper(Strip(v)) ELSE StrFalse
    IN  has_attachment_str \in {StrTrue, StrYes, <<"1">>, <<"T">>}

CleanThreadId(v, email_id) ==
    LET thread_id == CleanText(v)
    IN  IF thread_id = <<>> \/ Lower(thread_id) \in {TokThreadId, TokNan}
        THEN ThreadPrefix \o email_id
        ELSE thread_id

\* str(b) for a bool.
StrOfBool(b) == IF b THEN <<"T", "r", "u", "e">> ELSE <<"F", "a", "l", "s", "e">>

\* The attachment rule for a value that is a bool already (a bool is its own
\* truth value, and is printed before it is trimmed and upper-cased).
CleanHasAttachmentBool(b) ==
    LET has_attachment_str == IF b THEN Upper(Strip(StrOfBool(b))) ELSE StrFalse
    IN  has_attachment_str \in {StrTrue, StrYes, <<"1">>, <<"T">>}

\* clean_email_record(record) at the clock reading `now`: the cleaned record,
\* or None for a rejected row (and for a record that is None: record.get
\* raises, the handler returns None).
clean_email_record(record, now) ==
    IF record = None THEN None
    ELSE
    LET email_id == CleanEmailId(record.email_id)
    IN  IF RejectedId(email_id) THEN None
        ELSE [email_id |-> email_id,
              sender_email |-> CleanSenderEmail(record.sender_email),
              sender_name |-> CleanSenderName(record.sender_name),
              subject |-> CleanSubject(record.subject),
              body |-> CleanBody(record.body),
              timestamp |-> CleanTimestamp(record.timestamp, now),
              has_attachment |-> CleanHasAttachment(record.has_attachment),
              thread_id |-> CleanThreadId(record.thread_id, email_id)]

\* clean_email_record on a record whose has_attachment is a bool, as the
\* records it returns are.
clean_cleaned_record(record, now) ==
    IF record = None THEN None
    ELSE
    LET email_id == CleanEmailId(record.email_id)
    IN  IF RejectedId(email_id) THEN None
        ELSE [email_id |-> email_id,
              sender_email |-> CleanSenderEmail(record.sender_email),
              sender_name |-> CleanSenderName(record.sender_name),
              subject |-> CleanSubject(record.subject),
              body |-> CleanBody(record.body),
              timestamp |-> CleanTimestamp(record.timestamp, now),
              has_attachment |-> CleanHasAttachmentBool(record.has_attachment),
              thread_id |-> CleanThreadId(record.thread_id, email_id)]

\* ---------------------------------------------------- input documents
\* A row of an export file: the digits of its first column and the text after
\* the comma that follows them.
\* the row of the example: "1,a@b.com,Name,Subj,line1\nline2,2025-01-01T00:00:00Z,TRUE,thread_9"
RowExample ==
    [id |-> <<"1">>, tail |->
      <<"a", AT, "b", ".", "c", "o", "m", COMMA, "N", "a", "m", "e", COMMA,
        "S", "u", "b", "j", COMMA, "l", "i", "n", "e", "1", NL, "l", "i",
        "n", "e", "2", COMMA, "2", "0", "2", "5", "-", "0", "1", "-", "0",
        "1", "T", "0", "0", ":", "0", "0", ":", "0", "0", "Z", COMMA, "T",
        "R", "U", "E", COMMA, "t", "h", "r", "e", "a", "d", "_", "9", QT>>]
\* a plain well-formed row
RowPlain ==
    [id |-> <<"2">>, tail |->
      <<"C", AT, "d", COMMA, "A", "l", COMMA, "H", "i", COMMA, "o", "k",
        COMMA, "T", "1", COMMA, "n", "o", COMMA, "t", "2", QT>>]
\* malformed: the right split finds 2 parts
RowTwoParts ==
    [id |-> <<"3">>, tail |->
      <<"x", COMMA, "y", QT>>]
\* malformed: the right split finds 4 parts, the left split 2
RowFiveParts ==
    [id |-> <<"4">>, tail |->
      <<"a", COMMA, "b", COMMA, "c", COMMA, "d", COMMA, "e", QT>>]
\* a body wrapped in quotes that holds a comma, doubled quotes and near
\* misses of the boundary pattern
RowQuoted ==
    [id |-> <<"1", "2">>, tail |->
      <<"e", AT, "f", COMMA, "B", "o", COMMA, "R", "e", COMMA, QT, "x", QT,
        QT, COMMA, SP, "y", NL, QT, "3", "y", NL, QT, "z", NL, "4", COMMA,
        QT, COMMA, "T", "2", COMMA, "Y", "E", "S", COMMA, "t", "3", QT>>]
\* no closing quote, whitespace at both ends, empty sender and timestamp
RowOpen ==
    [id |-> <<"6">>, tail |->
      <<SP, COMMA, "C", "y", COMMA, "Y", "o", COMMA, "b", SP, COMMA, COMMA,
        "t", COMMA, "t", "4", SP, NL>>]
\* a body that holds the boundary pattern
RowAmbiguous ==
    [id |-> <<"7">>, tail |->
      <<"i", AT, "j", COMMA, "D", "i", COMMA, "F", "w", COMMA, "x", NL, QT,
        "8", COMMA, "y", COMMA, "T", "4", COMMA, "1", COMMA, "t", "5", QT>>]
\* malformed: two commas, one short of what the right split needs
RowThreeParts ==
    [id |-> <<"1", "0">>, tail |->
      <<"x", COMMA, "y", COMMA, "z", QT>>]
\* malformed: five commas, one short of a record; closed by two quotes
RowSixParts ==
    [id |-> <<"1", "1">>, tail |->
      <<"a", COMMA, "b", COMMA, "c", COMMA, "d", COMMA, "e", COMMA, QT, "f", QT, QT>>]
\* whitespace between the last column and the closing quote
RowPadded ==
    [id |-> <<"5">>, tail |->
      <<"g", AT, "h", COMMA, "F", "y", COMMA, "O", "k", COMMA, "w", COMMA,
        "T", "6", COMMA, "0", COMMA, "t", "7", SP, NL, QT>>]
\* a body that holds four double-quotes in a row and an escaped newline
\* (backslash, n)
RowEscaped ==
    [id |-> <<"1", "3">>, tail |->
      <<"m", AT, "n", COMMA, "G", "k", COMMA, "U", "p", COMMA, "p", QT, QT,
        QT, QT, "q", BS, "n", "r", COMMA, "T", "7", COMMA, "n", "o", COMMA,
        "t", "8", QT>>]
\* a header line
HeaderLine ==
    <<"e", "m", "a", "i", "l", "_", "i", "d", COMMA, "s", "e", "n", "d", "e",
      "r", "_", "e", "m", "a", "i", "l", COMMA, "b", "o", "d", "y">>
\* a file with no header line: its first line is a row
HeaderRowLike ==
    <<QT, "9", COMMA, "k", AT, "l", COMMA, "E", "d", COMMA, "U", "p", COMMA,
      "z", COMMA, "T", "5", COMMA, "T", "R", "U", "E", COMMA, "t", "6", QT>>
RowPool == {RowExample, RowPlain, RowTwoParts, RowThreeParts, RowFiveParts,
            RowSixParts, RowQuoted, RowOpen, RowPadded, RowAmbiguous,
            RowEscaped}
Headers == {<<>>, HeaderLine, HeaderRowLike}

\* Sequences over S of length at most n.
BoundedSeq(S, n) == UNION {[1..m -> S] : m \in 0..n}

\* The text of the rows: each row is newline, quote, id, comma, tail.
RECURSIVE RowsText(_)
RowsText(rows) ==
    IF Len(rows) = 0 THEN <<>>
    ELSE <<NL, QT>> \o rows[1].id \o <<COMMA>> \o rows[1].tail \o RowsText(Tail(rows))

Documents == {h \o RowsText(rows) : h \in Headers, rows \in BoundedSeq(RowPool, MaxRows)}

Clock == 0..MaxClock

\* The files handed to the loader: a header line, then no row or one row
\* whose body is a few bytes above 0x7F; a file object whose read raises (or
\* gives str instead of bytes).
FileRow(body) ==
    [id |-> <<"5">>, tail |->
      <<"a", AT, "b", COMMA, "N", COMMA, "S", COMMA>> \o body
      \o <<COMMA, "T", COMMA, "n", "o", COMMA, "t", QT>>]
Files ==
    {[bytes |-> bs, readable |-> r] :
        bs \in {HeaderLine \o hb : hb \in BoundedSeq(HighBytes, MaxBytes)}
               \cup {HeaderLine \o RowsText(<<FileRow(hb)>>) :
                        hb \in BoundedSeq(HighBytes, MaxBytes)},
        r \in BOOLEAN}


\* The keys of a record.
Fields == {"email_id", "sender_email", "sender_name", "subject", "body",
           "timestamp", "has_attachment", "thread_id"}

\* ------------------------------------------------- EmailProcessor.process_email
StrNone == <<"N", "o", "n", "e">>
StatusCompleted == <<"c", "o", "m", "p", "l", "e", "t", "e", "d">>
StatusError == <<"e", "r", "r", "o", "r">>
MsgInvalid == <<"I", "n", "v", "a", "l", "i", "d", SP, "e", "m", "a", "i", "l", SP, "d", "a", "t", "a">>
MsgFailure == <<"f", "a", "i", "l", "u", "r", "e">>
\* The text of the UnicodeEncodeError of str.encode().
MsgEncode == <<"s", "u", "r", "r", "o", "g", "a", "t", "e", "s", SP, "n", "o", "t", SP,
               "a", "l", "l", "o", "w", "e", "d">>
CategoryWork == <<"W", "o", "r", "k">>
CategoryPersonal == <<"P", "e", "r", "s", "o", "n", "a", "l">>
PriorityHigh == <<"H", "i", "g", "h">>
PriorityMedium == <<"M", "e", "d", "i", "u", "m">>
ActionReply == <<"R", "e", "p", "l", "y">>
ActionArchive == <<"A", "r", "c", "h", "i", "v", "e">>
ActionFlag == <<"F", "l", "a", "g", SP, "f", "o", "r", SP, "R", "e", "v", "i", "e", "w">>

\* email_data.get(key, default)
GetOr(v, default) == IF v = Missing THEN default ELSE v

\* str(email_data.get(key, default)): None prints as 'None'.
StrOf(v, default) ==
    IF v = Missing THEN default ELSE IF v = NoneValue THEN StrNone ELSE v

\* not email_data: the dict holds no key.
Falsy(email_data) == \A f \in Fields : email_data[f] = Missing

\* The answer to invalid input.
InvalidResult ==
    [email_id |-> StrUnknown, processing_status |-> StatusError,
     error_message |-> MsgInvalid]

\* The header test of process_email: the id as printed, not trimmed.
IsHeaderId(email_id) == Lower(email_id) = TokEmailId

\* The required fields, filled in the caller's dict where absent or empty.
RequiredFields == {"sender_email", "sender_name", "subject", "body"}
FillRequired(email_data) ==
    [f \in Fields |->
        IF f \in RequiredFields /\ ~Truthy(email_data[f])
        THEN IF f = "body" THEN NoContent ELSE StrUnknownCap
        ELSE email_data[f]]

\* How a run of the three stages may end: all well; classify or prioritize
\* failed (fallback values, the message kept, the run completed); the
\* architect failed; the graph itself raised.
OrchestratorOutcomes ==
    {[kind |-> "ok", category |-> CategoryWork, priority |-> PriorityHigh,
      action_recommendation |-> ActionReply,
      processing_status |-> StatusCompleted, error_message |-> NoneValue],
     [kind |-> "stage_failed", category |-> CategoryPersonal, priority |-> PriorityMedium,
      action_recommendation |-> ActionArchive,
      processing_status |-> StatusCompleted, error_message |-> MsgFailure],
     [kind |-> "architect_failed", category |-> CategoryWork, priority |-> PriorityHigh,
      action_recommendation |-> ActionFlag,
      processing_status |-> StatusError, error_message |-> MsgFailure],
     [kind |-> "graph_raised", category |-> NoneValue, priority |-> NoneValue,
      action_recommendation |-> NoneValue,
      processing_status |-> StatusError, error_message |-> MsgFailure]}

\* _state_to_dict(orchestrator.process_email(email_data)) for an outcome of
\* the stages (of the analysis only category, priority and the recommended
\* action are kept here).
StateToDict(email_data, o) ==
    IF o.kind = "graph_raised"
    THEN [email_id |-> GetOr(email_data.email_id, NoneValue),
          sender_email |-> GetOr(email_data.sender_email, NoneValue),
          sender_name |-> GetOr(email_data.sender_name, NoneValue),
          subject |-> GetOr(email_data.subject, NoneValue),
          body |-> GetOr(email_data.body, NoneValue),
          timestamp |-> GetOr(email_data.timestamp, NoneValue),
          has_attachment |-> GetOr(email_data.has_attachment, NoneValue),
          thread_id |-> GetOr(email_data.thread_id, NoneValue),
          category |-> o.category, priority |-> o.priority,
          action_recommendation |-> o.action_recommendation,
          processing_status |-> o.processing_status,
          error_message |-> o.error_message]
    ELSE [email_id |-> StrOf(email_data.email_id, StrUnknown),
          sender_email |-> GetOr(email_data.sender_email, <<>>),
          sender_name |-> GetOr(email_data.sender_name, <<>>),
          subject |-> GetOr(email_data.subject, <<>>),
          body |-> GetOr(email_data.body, <<>>),
          timestamp |-> GetOr(email_data.timestamp, <<>>),
          has_attachment |-> Truthy(email_data.has_attachment),
          thread_id |-> StrOf(email_data.thread_id, <<>>),
          category |-> o.category, priority |-> o.priority,
          action_recommendation |-> o.action_recommendation,
          processing_status |-> o.processing_status,
          error_message |-> o.error_message]

\* _save_to_cache(email_id, result), and processed_emails[email_id] = result.
\* A lone surrogate code point: a character str.encode() has no UTF-8 for.
SURR == "U+D800"

\* _get_cache_file encodes the cache key f"email_{email_id}" for md5:
\* encode() raises UnicodeEncodeError on a lone surrogate.
CacheKeyRaises(email_id) == \E n \in 1..Len(email_id) : email_id[n] = SURR

\* The entry process_emails_batch appends when process_email raised: the
\* keys of the input dict, then processing_status and error_message.
ErrorEntryBare(email, msg) ==
    [processing_status |-> StatusError, error_message |-> msg]

ErrorEntry(email, msg) ==
    [f \in {g \in Fields : email[g] /= Missing} \cup {"processing_status", "error_message"} |->
        IF f = "processing_status" THEN StatusError
        ELSE IF f = "error_message" THEN msg
        ELSE email[f]]

\* A store that keeps the entry an id already has.
StoreKeepFirst(map, email_id, result) ==
    IF email_id \in DOMAIN map THEN map
    ELSE [x \in DOMAIN map \cup {email_id} |-> IF x = email_id THEN result ELSE map[x]]

Store(map, email_id, result) ==
    [x \in DOMAIN map \cup {email_id} |-> IF x = email_id THEN result ELSE map[x]]

\* ------------------------------------------------------ input records
\* A well-formed raw record.
BaseRecord ==
    [email_id |-> <<"7">>, sender_email |-> <<"a", AT, "b">>, sender_name |-> <<"N">>,
     subject |-> <<"S">>, body |-> <<"h", "i">>, timestamp |-> <<"T", "1">>,
     has_attachment |-> StrTrue, thread_id |-> <<"t", "1">>]

\* The column name of a field, in upper case.
OwnToken(f) ==
    Upper(CASE f = "email_id" -> TokEmailId
            [] f = "sender_email" -> TokSenderEmail
            [] f = "sender_name" -> TokSenderName
            [] f = "subject" -> TokSubject
            [] f = "body" -> TokBody
            [] f = "timestamp" -> TokTimestamp
            [] f = "has_attachment" -> <<"y", "e", "s">>
            [] f = "thread_id" -> TokThreadId)

\* A subject longer than the cap, a newline among its first characters.
LongSubject == [n \in 1..(SubjectCap + 3) |-> IF n = 2 THEN NL ELSE "s"]

\* Values of interest to one field: spellings of the attachment flag; long
\* and multi-line subjects.
FieldValues(f) ==
    CASE f = "has_attachment" ->
           {<<SP, "y", "e", "s", NL>>, <<"1">>, <<"t">>, <<"T", "R", "U", "E", "X">>,
            <<"0">>}
      [] f = "subject" ->
           {LongSubject, <<"a", NL, NL, "b", BS, "n", "c", NL>>}
      [] OTHER -> {}

\* Values a field of a messy record may hold: absent, None, empty, blank, a
\* placeholder, a literal backslash-n, padded upper case text with an @, text
\* with newlines and doubled quotes, the field's own column name.
DirtyValues(f) ==
    {Missing, NoneValue, <<>>, <<SP>>, <<"N", "a", "N">>, <<BS, "n">>,
     <<SP, "A", AT, "B", NL>>, <<"x", NL, NL, QT, QT, "y">>, OwnToken(f)}

\* The sets of at most n fields.
DirtySets(n) == {D \in SUBSET Fields : Cardinality(D) <= n}

\* The ways of giving each field of D one of its messy values.
DirtyChoices(D) ==
    {g \in [D -> UNION {DirtyValues(f) : f \in Fields}] :
        \A f \in D : g[f] \in DirtyValues(f)}

\* BaseRecord with the fields of D as g has them.
Dirtied(D, g) == [f \in Fields |-> IF f \in D THEN g[f] ELSE BaseRecord[f]]

\* r is a record the validator is given: one with at most MaxDirty messy
\* fields, or one with a value of interest in one field and fewer messy
\* fields besides.
DirtyInput(r) ==
    \/ \E D \in DirtySets(MaxDirty) : \E g \in DirtyChoices(D) : r = Dirtied(D, g)
    \/ \E D \in DirtySets(MaxDirty - 1) : \E g \in DirtyChoices(D) :
          \E f \in Fields : \E v \in FieldValues(f) :
             r = [Dirtied(D, g) EXCEPT ![f] = v]

\* The raw body texts given to the body normalizer.
BodyAlphabet == {QT, "a", COMMA}
BodyTexts == BoundedSeq(BodyAlphabet, MaxBodyLen)

\* How many times the normalizer is run over a text.
MaxPasses == 2

\* What a caller may put in a batch: None, an empty dict, records whose
\* email_id is absent, None, empty, blank, the header token (bare, upper case,
\* padded), the placeholder nan, or a number; records lacking a required field.
EmptyDict == [f \in Fields |-> Missing]
BatchPool ==
    {None, EmptyDict, BaseRecord,
     [BaseRecord EXCEPT !.body = Missing, !.email_id = <<"8">>]}
    \cup {[BaseRecord EXCEPT !.email_id = v] :
            v \in {Missing, NoneValue, <<>>, <<SP>>, TokEmailId, Upper(TokEmailId),
                   <<SP>> \o TokEmailId \o <<SP>>, TokNan, <<"9", SURR>>}}

\* ------------------------------------------------- utils: display helpers
\* str.split() without separator: the maximal runs of non-whitespace.
RECURSIVE SplitWords(_)
SplitWords(s) ==
    LET starts == {p \in 1..Len(s) : s[p] \notin Whitespace}
    IN  IF starts = {} THEN <<>>
        ELSE LET first == CHOOSE p \in starts : \A q \in starts : p <= q
                 ends == {q \in first..Len(s) : q = Len(s) \/ s[q + 1] \in Whitespace}
                 last == CHOOSE q \in ends : \A r \in ends : q <= r
             IN  <<SubSeq(s, first, last)>> \o SplitWords(Slice(s, last + 1, Len(s)))

\* ' '.join(words)
RECURSIVE JoinSpaces(_)
JoinSpaces(words) ==
    IF words = <<>> THEN <<>>
    ELSE IF Len(words) = 1 THEN words[1]
    ELSE words[1] \o <<SP>> \o JoinSpaces(Tail(words))

\* s[:n], where a negative n counts from the end.
SliceTo(s, n) ==
    IF n >= 0 THEN Slice(s, 1, IF n < Len(s) THEN n ELSE Len(s))
    ELSE Slice(s, 1, Len(s) + n)

\* A value that is no str: the int 7.
Number == <<"int 7">>
StrNumber == <<"7">>
Initials2 == <<"?", "?">>
Ellipsis == <<".", ".", ".">>

\* get_sender_initials without the upper().
GetSenderInitialsNoUpper(sender_name) ==
    IF sender_name = NoneValue \/ sender_name = <<>> THEN Initials2
    ELSE IF sender_name = Number THEN Initials2
    ELSE LET words == SplitWords(Strip(sender_name))
         IN  IF Len(words) >= 2
             THEN <<words[1][1], words[Len(words)][1]>>
             ELSE IF Len(words) = 1 THEN <<words[1][1]>>
             ELSE Initials2

\* get_sender_initials(sender_name); of a value that is no str the strip()
\* raises AttributeError, which the function catches.
get_sender_initials(sender_name) ==
    IF sender_name = NoneValue \/ sender_name = <<>> THEN Initials2
    ELSE IF sender_name = Number THEN Initials2
    ELSE LET words == SplitWords(Strip(sender_name))
         IN  IF Len(words) >= 2
             THEN Upper(<<words[1][1], words[Len(words)][1]>>)
             ELSE IF Len(words) = 1 THEN Upper(<<words[1][1]>>)
             ELSE Initials2

\* get_email_preview without the "..." after the cut.
GetEmailPreviewNoEllipsis(body, max_length) ==
    IF body = NoneValue \/ body = <<>> THEN NoContent
    ELSE LET text == Strip(IF body = Number THEN StrNumber ELSE body)
             preview == JoinSpaces(SplitWords(text))
         IN  IF Len(preview) > max_length
             THEN SliceTo(preview, max_length)
             ELSE preview

\* get_email_preview(body, max_length)
get_email_preview(body, max_length) ==
    IF body = NoneValue \/ body = <<>> THEN NoContent
    ELSE LET text == Strip(IF body = Number THEN StrNumber ELSE body)
             preview == JoinSpaces(SplitWords(text))
         IN  IF Len(preview) > max_length
             THEN SliceTo(preview, max_length) \o Ellipsis
             ELSE preview

\* The names and bodies the helpers are called with, and the lengths.
MaxNameLen == 5
MaxPreview == 3
DefaultMaxLength == 100
NameAlphabet == {"j", "S", SP, TAB}
Names == BoundedSeq(NameAlphabet, MaxNameLen) \cup {NoneValue, Number}
PreviewAlphabet == {"a", SP, NL}
LongText == [n \in 1..150 |-> "A"]
Bodies == BoundedSeq(PreviewAlphabet, MaxBodyLen) \cup {NoneValue, Number, LongText}
MaxLengths == (-1..MaxPreview) \cup {DefaultMaxLength}

\* No file at hand (the text is taken as decoded).
NoFile == [bytes |-> <<>>, readable |-> TRUE]

\* ------------------------------------------------------------------- state
VARIABLES
    pc,              \* where the run stands
    content,         \* the decoded text of the uploaded file
    parts,           \* pattern.split(content)
    i,               \* the loop index over parts (0-based, as in the source)
    data,            \* the records clean_and_load_emails has built
    diag,            \* what clean_and_load_emails has printed
    emails,          \* the list of records a loop runs over
    cleaned_emails,  \* the records load_emails_from_csv has kept
    j,               \* how many of emails load_emails_from_csv has cleaned
    clock,           \* the clock reading the validator was last run at
    record,          \* the argument of a clean_email_record call
    cleaned,         \* what that call returned
    body_runs,       \* a raw body text and what each normalizer pass made of it
    args,            \* the arguments of a call of a display helper of utils
    ret,             \* what that call returned
    use_cache,       \* the use_cache argument of process_emails_batch
    cache,           \* the cache directory: email_id -> stored result
    processed_emails,\* EmailProcessor.processed_emails
    results,         \* the results list of process_emails_batch
    batch_i,         \* how many of emails process_emails_batch has passed
    uploaded_file,   \* the file object handed to clean_and_load_emails
    enc,             \* how many of the candidate encodings have been tried
    state,           \* the EmailProcessingState the graph is working on
    stages,          \* the nodes of the graph that have run on it, in order
    processed_data,  \* st.session_state.processed_data
    search_query,    \* the text of the search box
    filter_prio,     \* the priorities selected in the sidebar
    filter_cat,      \* the categories selected in the sidebar
    filtered_emails  \* the inbox list of the last run of the script

decodeVars == <<uploaded_file, enc>>
loaderVars == <<content, parts, i, data, diag, decodeVars>>
csvVars == <<emails, cleaned_emails, j>>
validatorVars == <<record, cleaned>>
processorVars == <<use_cache, cache, processed_emails, results, batch_i>>
utilVars == <<args, ret>>
graphVars == <<state, stages>>
appVars == <<processed_data, search_query, filter_prio, filter_cat, filtered_emails>>
vars == <<pc, content, parts, i, data, diag, emails, cleaned_emails, j, clock,
          record, cleaned, body_runs, use_cache, cache, processed_emails, results, batch_i,
          uploaded_file, enc, args, ret,
          graphVars, appVars>>

\* parts[k] with the source's 0-based index.
At(seq, n) == seq[n + 1]

\* A dict with no key.
EmptyMap == <<>>

\* ------------------------------------------- clean_and_load_emails, by step
Init ==
    /\ pc = "split"
    /\ content \in Documents
    /\ parts = <<>>
    /\ uploaded_file = NoFile
    /\ enc = 0
    /\ i = 0
    /\ data = <<>>
    /\ diag = <<>>
    /\ emails = <<>>
    /\ cleaned_emails = <<>>
    /\ j = 0
    /\ clock = 0
    /\ record = None
    /\ cleaned = None
    /\ body_runs = <<>>
    /\ args = None
    /\ ret = NoneValue
    /\ use_cache = FALSE
    /\ cache = EmptyMap
    /\ processed_emails = EmptyMap
    /\ results = <<>>
    /\ batch_i = 0
    /\ state = None
    /\ stages = <<>>
    /\ processed_data = <<>>
    /\ search_query = <<>>
    /\ filter_prio = {}
    /\ filter_cat = {}
    /\ filtered_emails = <<>>

\* parts = pattern.split(content); data = []; the loop starts at index 1.
SplitRows ==
    /\ pc = "split"
    /\ parts' = PatternSplit(content)
    /\ data' = <<>>
    /\ i' = 1
    /\ pc' = "rows"
    /\ UNCHANGED <<graphVars, appVars, content, decodeVars, diag, csvVars, clock, validatorVars, body_runs, utilVars,
                   processorVars>>

\* One iteration of the loop: a record appended, or the row skipped with one
\* printed line.
ProcessSegment ==
    /\ pc = "rows"
    /\ i < Len(parts)
    /\ LET r == ProcessRow(At(parts, i), At(parts, i + 1))
       IN  IF r.kind = "record"
           THEN /\ data' = ListAppend(data, RecordOf(r))
                /\ diag' = diag
                /\ i' = RangeStep(i)
           ELSE /\ data' = data
                /\ diag' = Append(diag, [kind |-> r.kind, email_id |-> r.email_id])
                /\ i' = AfterSkip(i, Len(parts))
    /\ UNCHANGED <<graphVars, appVars, pc, content, decodeVars, parts, csvVars, clock, validatorVars, body_runs, utilVars,
                   processorVars>>

\* The loop is over: the count is printed and data returned to
\* load_emails_from_csv.
LoaderReturn ==
    /\ pc = "rows"
    /\ i >= Len(parts)
    /\ diag' = Append(diag, [kind |-> "parsed", email_id |-> <<ToString(Len(data))>>])
    /\ emails' = data
    /\ cleaned_emails' = <<>>
    /\ j' = 0
    /\ pc' = "loaded"
    /\ UNCHANGED <<graphVars, appVars, content, decodeVars, parts, i, data, clock, validatorVars, body_runs, utilVars,
                   processorVars>>

\* load_emails_from_csv: one iteration of the loop over the loader's records
\* (the clock is read, its reading is not kept).
CleanLoaded ==
    /\ pc = "loaded"
    /\ j < Len(emails)
    /\ \E now \in Clock :
         LET c == clean_email_record(emails[j + 1], now)
         IN  cleaned_emails' = IF c /= None THEN ListAppend(cleaned_emails, c)
                               ELSE cleaned_emails
    /\ j' = j + 1
    /\ UNCHANGED <<graphVars, appVars, pc, loaderVars, emails, clock, validatorVars, body_runs, utilVars, processorVars>>

\* load_emails_from_csv returns cleaned_emails.
LoadReturn ==
    /\ pc = "loaded"
    /\ j = Len(emails)
    /\ pc' = "done"
    /\ UNCHANGED <<graphVars, appVars, loaderVars, csvVars, clock, validatorVars, body_runs, utilVars, processorVars>>

Next == SplitRows \/ ProcessSegment \/ LoaderReturn \/ CleanLoaded \/ LoadReturn

Spec == Init /\ [][Next]_vars

\* ------------------------------ clean_and_load_emails from the file object
InitDecode ==
    /\ pc = "decode"
    /\ uploaded_file \in Files
    /\ enc = 0
    /\ content = NoneValue
    /\ parts = <<>>
    /\ i = 0
    /\ data = <<>>
    /\ diag = <<>>
    /\ emails = <<>>
    /\ cleaned_emails = <<>>
    /\ j = 0
    /\ clock = 0
    /\ record = None
    /\ cleaned = None
    /\ body_runs = <<>>
    /\ args = None
    /\ ret = NoneValue
    /\ use_cache = FALSE
    /\ cache = EmptyMap
    /\ processed_emails = EmptyMap
    /\ results = <<>>
    /\ batch_i = 0
    /\ state = None
    /\ stages = <<>>
    /\ processed_data = <<>>
    /\ search_query = <<>>
    /\ filter_prio = {}
    /\ filter_cat = {}
    /\ filtered_emails = <<>>

\* One turn of the loop over the encodings: the text is kept and the loop
\* left, or the next encoding is up.
TryEncoding ==
    /\ pc = "decode"
    /\ enc < Len(Encodings)
    /\ LET r == ReadDecode(uploaded_file, Encodings[enc + 1])
       IN  IF r.ok
           THEN /\ content' = r.text
                /\ pc' = "split"
                /\ enc' = enc
           ELSE /\ enc' = enc + 1
                /\ UNCHANGED <<pc, content>>
    /\ UNCHANGED <<graphVars, appVars, uploaded_file, parts, i, data, diag, csvVars, clock, validatorVars,
                   body_runs, utilVars, processorVars>>

\* No encoding gave a text: content is None, one line is printed and [] is
\* returned to the caller.
DecodeGiveUp ==
    /\ pc = "decode"
    /\ enc = Len(Encodings)
    /\ diag' = Append(diag, [kind |-> "decode_error", email_id |-> <<>>])
    /\ emails' = <<>>
    /\ cleaned_emails' = <<>>
    /\ j' = 0
    /\ pc' = "loaded"
    /\ UNCHANGED <<graphVars, appVars, content, decodeVars, parts, i, data, clock, validatorVars, body_runs, utilVars,
                   processorVars>>

NextDecode == TryEncoding \/ DecodeGiveUp \/ SplitRows \/ ProcessSegment \/ LoaderReturn

SpecDecode == InitDecode /\ [][NextDecode]_vars

\* --------------------------------------------- clean_email_record, one call
InitClean ==
    /\ pc = "record"
    /\ DirtyInput(record)
    /\ cleaned = None
    /\ clock = 0
    /\ content = <<>>
    /\ parts = <<>>
    /\ uploaded_file = NoFile
    /\ enc = 0
    /\ i = 0
    /\ data = <<>>
    /\ diag = <<>>
    /\ emails = <<>>
    /\ cleaned_emails = <<>>
    /\ j = 0
    /\ body_runs = <<>>
    /\ args = None
    /\ ret = NoneValue
    /\ use_cache = FALSE
    /\ cache = EmptyMap
    /\ processed_emails = EmptyMap
    /\ results = <<>>
    /\ batch_i = 0
    /\ state = None
    /\ stages = <<>>
    /\ processed_data = <<>>
    /\ search_query = <<>>
    /\ filter_prio = {}
    /\ filter_cat = {}
    /\ filtered_emails = <<>>

\* The call reads the clock: the record is not rejected and its timestamp is
\* missing, empty or a placeholder (datetime.utcnow() is called in that
\* branch only).
ReadsClock(r) ==
    /\ r /= None
    /\ ~RejectedId(CleanEmailId(r.email_id))
    /\ LET timestamp == CleanText(r.timestamp)
       IN  timestamp = <<>> \/ Lower(timestamp) \in {TokTimestamp, TokNan}

\* The readings the call may get: any when it reads the clock, else the
\* reading stays what it was.
ClockReadings(r) == IF ReadsClock(r) THEN Clock ELSE {clock}

\* cleaned = clean_email_record(record), the clock read during the call when
\* the timestamp is defaulted.
Validate ==
    /\ pc = "record"
    /\ \E now \in ClockReadings(record) :
         /\ cleaned' = clean_email_record(record, now)
         /\ clock' = now
    /\ pc' = "cleaned"
    /\ UNCHANGED <<graphVars, appVars, record, loaderVars, csvVars, body_runs, utilVars, processorVars>>

\* The record returned is cleaned once more: cleaned = clean_email_record(cleaned).
Revalidate ==
    /\ pc = "cleaned"
    /\ cleaned /= None
    /\ record' = cleaned
    /\ \E now \in ClockReadings(cleaned) :
         /\ cleaned' = clean_cleaned_record(cleaned, now)
         /\ clock' = now
    /\ pc' = "recleaned"
    /\ UNCHANGED <<graphVars, appVars, loaderVars, csvVars, body_runs, utilVars, processorVars>>

NextClean == Validate \/ Revalidate

SpecClean == InitClean /\ [][NextClean]_vars

\* ------------------------------------------- the body normalizer, re-applied
InitBody ==
    /\ pc = "body"
    /\ body_runs \in {<<x>> : x \in BodyTexts}
    /\ args = None
    /\ ret = NoneValue
    /\ record = None
    /\ cleaned = None
    /\ clock = 0
    /\ content = <<>>
    /\ parts = <<>>
    /\ uploaded_file = NoFile
    /\ enc = 0
    /\ i = 0
    /\ data = <<>>
    /\ diag = <<>>
    /\ emails = <<>>
    /\ cleaned_emails = <<>>
    /\ j = 0
    /\ use_cache = FALSE
    /\ cache = EmptyMap
    /\ processed_emails = EmptyMap
    /\ results = <<>>
    /\ batch_i = 0
    /\ state = None
    /\ stages = <<>>
    /\ processed_data = <<>>
    /\ search_query = <<>>
    /\ filter_prio = {}
    /\ filter_cat = {}
    /\ filtered_emails = <<>>

\* One more pass of the normalizer over the text the last pass gave.
NormalizePass ==
    /\ pc = "body"
    /\ Len(body_runs) <= MaxPasses
    /\ body_runs' = Append(body_runs, NormalizeBody(body_runs[Len(body_runs)]))
    /\ UNCHANGED <<graphVars, appVars, pc, loaderVars, csvVars, clock, validatorVars, processorVars,
                   utilVars>>

NextBody == NormalizePass

SpecBody == InitBody /\ [][NextBody]_vars

\* ------------------------- a body written with doubled quotes, then normalized
\* The text as the file holds it under the doubling convention the normalizer
\* undoes: each double-quote written twice.
RECURSIVE DoubleQuotes(_)
DoubleQuotes(s) ==
    IF Len(s) = 0 THEN <<>>
    ELSE (IF s[1] = QT THEN <<QT, QT>> ELSE <<s[1]>>) \o DoubleQuotes(Tail(s))

InitQuote ==
    /\ pc = "text"
    /\ body_runs \in {<<x>> : x \in BodyTexts}
    /\ args = None
    /\ ret = NoneValue
    /\ record = None
    /\ cleaned = None
    /\ clock = 0
    /\ content = <<>>
    /\ parts = <<>>
    /\ uploaded_file = NoFile
    /\ enc = 0
    /\ i = 0
    /\ data = <<>>
    /\ diag = <<>>
    /\ emails = <<>>
    /\ cleaned_emails = <<>>
    /\ j = 0
    /\ use_cache = FALSE
    /\ cache = EmptyMap
    /\ processed_emails = EmptyMap
    /\ results = <<>>
    /\ batch_i = 0
    /\ state = None
    /\ stages = <<>>
    /\ processed_data = <<>>
    /\ search_query = <<>>
    /\ filter_prio = {}
    /\ filter_cat = {}
    /\ filtered_emails = <<>>

\* The text is written into a row with its quotes doubled.
WriteBody ==
    /\ pc = "text"
    /\ body_runs' = Append(body_runs, DoubleQuotes(body_runs[1]))
    /\ pc' = "written"
    /\ UNCHANGED <<graphVars, appVars, loaderVars, csvVars, clock, validatorVars, processorVars, utilVars>>

\* The loader normalizes the body it finds in the row.
ReadBody ==
    /\ pc = "written"
    /\ body_runs' = Append(body_runs, NormalizeBody(body_runs[2]))
    /\ pc' = "read"
    /\ UNCHANGED <<graphVars, appVars, loaderVars, csvVars, clock, validatorVars, processorVars, utilVars>>

NextQuote == WriteBody \/ ReadBody

SpecQuote == InitQuote /\ [][NextQuote]_vars

\* ---------------------- the validator loop and process_emails_batch, by step
\* A caller holds a list of records; load_emails_from_csv's loop cleans it
\* (CleanLoaded, LoadReturn), then process_emails_batch is run over it.
InitBatch ==
    /\ pc = "loaded"
    /\ emails \in BoundedSeq(BatchPool, MaxBatch)
    /\ use_cache \in BOOLEAN
    /\ cleaned_emails = <<>>
    /\ j = 0
    /\ cache = EmptyMap
    /\ processed_emails = EmptyMap
    /\ results = <<>>
    /\ batch_i = 0
    /\ state = None
    /\ stages = <<>>
    /\ processed_data = <<>>
    /\ search_query = <<>>
    /\ filter_prio = {}
    /\ filter_cat = {}
    /\ filtered_emails = <<>>
    /\ record = None
    /\ cleaned = None
    /\ clock = 0
    /\ content = <<>>
    /\ parts = <<>>
    /\ uploaded_file = NoFile
    /\ enc = 0
    /\ i = 0
    /\ data = <<>>
    /\ diag = <<>>
    /\ body_runs = <<>>
    /\ args = None
    /\ ret = NoneValue

\* process_emails_batch(emails, use_cache) is entered: results = [].
BatchStart ==
    /\ pc = "done"
    /\ results' = <<>>
    /\ batch_i' = 0
    /\ pc' = "batch"
    /\ UNCHANGED <<graphVars, appVars, loaderVars, csvVars, clock, validatorVars, body_runs, utilVars,
                   use_cache, cache, processed_emails>>

\* An entry that is None is passed over.
BatchSkipNone ==
    /\ pc = "batch"
    /\ batch_i < Len(emails)
    /\ emails[batch_i + 1] = None
    /\ batch_i' = batch_i + 1
    /\ UNCHANGED <<graphVars, appVars, pc, loaderVars, csvVars, clock, validatorVars, body_runs, utilVars,
                   use_cache, cache, processed_emails, results>>

\* One iteration with process_email(email, use_cache): invalid input answered
\* with an error entry; a header row dropped; with the cache in use, an
\* email_id the cache key cannot encode raises out of process_email and the
\* loop appends the error entry of its except branch; a cached result
\* returned; or the required fields filled in the caller's dict, the stages
\* run, the result cached (a failed save is swallowed), remembered and
\* appended.
BatchProcessEmail ==
    /\ pc = "batch"
    /\ batch_i < Len(emails)
    /\ emails[batch_i + 1] /= None
    /\ LET email_data == emails[batch_i + 1]
           email_id == StrOf(email_data.email_id, StrUnknown)
       IN  IF Falsy(email_data)
           THEN /\ results' = ListAppend(results, InvalidResult)
                /\ UNCHANGED <<emails, cache, processed_emails>>
           ELSE IF IsHeaderId(email_id)
           THEN UNCHANGED <<emails, cache, processed_emails, results>>
           ELSE IF use_cache /\ CacheKeyRaises(email_id)
           THEN /\ results' = ListAppend(results, ErrorEntry(email_data, MsgEncode))
                /\ UNCHANGED <<emails, cache, processed_emails>>
           ELSE IF use_cache /\ email_id \in DOMAIN cache
           THEN /\ results' = ListAppend(results, cache[email_id])
                /\ UNCHANGED <<emails, cache, processed_emails>>
           ELSE \E o \in OrchestratorOutcomes :
                  LET filled == FillRequired(email_data)
                      result == StateToDict(filled, o)
                  IN  /\ emails' = [emails EXCEPT ![batch_i + 1] = filled]
                      /\ cache' = IF CacheKeyRaises(email_id) THEN cache
                                  ELSE Store(cache, email_id, result)
                      /\ processed_emails' = Store(processed_emails, email_id, result)
                      /\ results' = ListAppend(results, result)
    /\ batch_i' = batch_i + 1
    /\ UNCHANGED <<graphVars, appVars, pc, loaderVars, cleaned_emails, j, clock, validatorVars,
                   body_runs, utilVars, use_cache>>

\* The loop is over: the results that are not None are returned.
BatchReturn ==
    /\ pc = "batch"
    /\ batch_i = Len(emails)
    /\ results' = SelectSeq(results, LAMBDA r : r /= None)
    /\ pc' = "returned"
    /\ UNCHANGED <<graphVars, appVars, loaderVars, csvVars, clock, validatorVars, body_runs, utilVars,
                   use_cache, cache, processed_emails, batch_i>>

NextBatch ==
    CleanLoaded \/ LoadReturn \/ BatchStart \/ BatchSkipNone \/ BatchProcessEmail
    \/ BatchReturn

SpecBatch == InitBatch /\ [][NextBatch]_vars

\* ------------------------------------------------- SpecUtils: the helpers
\* A call of get_sender_initials or of get_email_preview is about to be made.
InitUtils ==
    /\ pc = "call"
    /\ args \in {[sender_name |-> n] : n \in Names}
                \cup {[body |-> b, max_length |-> m] : b \in Bodies, m \in MaxLengths}
    /\ ret = NoneValue
    /\ body_runs = <<>>
    /\ record = None
    /\ cleaned = None
    /\ clock = 0
    /\ content = <<>>
    /\ parts = <<>>
    /\ uploaded_file = NoFile
    /\ enc = 0
    /\ i = 0
    /\ data = <<>>
    /\ diag = <<>>
    /\ emails = <<>>
    /\ cleaned_emails = <<>>
    /\ j = 0
    /\ use_cache = FALSE
    /\ cache = EmptyMap
    /\ processed_emails = EmptyMap
    /\ results = <<>>
    /\ batch_i = 0
    /\ state = None
    /\ stages = <<>>
    /\ processed_data = <<>>
    /\ search_query = <<>>
    /\ filter_prio = {}
    /\ filter_cat = {}
    /\ filtered_emails = <<>>

\* The call of get_sender_initials returns.
GetSenderInitials ==
    /\ pc = "call"
    /\ "sender_name" \in DOMAIN args
    /\ ret' = get_sender_initials(args.sender_name)
    /\ pc' = "initials"
    /\ UNCHANGED <<graphVars, appVars, args, loaderVars, csvVars, clock, validatorVars, body_runs,
                   processorVars>>

\* The call of get_email_preview returns.
GetEmailPreview ==
    /\ pc = "call"
    /\ "body" \in DOMAIN args
    /\ ret' = get_email_preview(args.body, args.max_length)
    /\ pc' = "preview"
    /\ UNCHANGED <<graphVars, appVars, args, loaderVars, csvVars, clock, validatorVars, body_runs,
                   processorVars>>

NextUtils == GetSenderInitials \/ GetEmailPreview

SpecUtils == InitUtils /\ [][NextUtils]_vars

\* ------------------------------- EmailProcessor.process_email, call by call
MaxCalls == 3

\* The dicts process_email is called with: a well-formed record, the same id
\* with another subject and no body, a header row, an id the cache key
\* cannot encode, and {}.
CallPool ==
    {BaseRecord,
     [BaseRecord EXCEPT !.subject = <<"X">>, !.body = Missing],
     [BaseRecord EXCEPT !.email_id = Upper(TokEmailId)],
     [BaseRecord EXCEPT !.email_id = <<"9", SURR>>],
     EmptyDict}

\* What a call that raised gives its caller.
Raised(msg) == [raised |-> msg]

InitCache ==
    /\ pc = "idle"
    /\ args = None
    /\ ret = NoneValue
    /\ use_cache = FALSE
    /\ cache = EmptyMap
    /\ processed_emails = EmptyMap
    /\ results = <<>>
    /\ diag = <<>>
    /\ batch_i = 0
    /\ state = None
    /\ stages = <<>>
    /\ processed_data = <<>>
    /\ search_query = <<>>
    /\ filter_prio = {}
    /\ filter_cat = {}
    /\ filtered_emails = <<>>
    /\ emails = <<>>
    /\ cleaned_emails = <<>>
    /\ j = 0
    /\ body_runs = <<>>
    /\ record = None
    /\ cleaned = None
    /\ clock = 0
    /\ content = <<>>
    /\ parts = <<>>
    /\ uploaded_file = NoFile
    /\ enc = 0
    /\ i = 0
    /\ data = <<>>

\* One call process_email(email_data, use_cache) on the same EmailProcessor:
\* args is the call as the caller sees it afterwards (the required fields
\* are filled in the caller's dict), results the values returned so far,
\* diag the line the call logs (warning 'Invalid email_data provided', info
\* 'Using cached result for email X' or 'Processing email X').
ProcessEmail ==
    /\ pc = "idle"
    /\ Len(results) < MaxCalls
    /\ \E email_data \in CallPool, uc \in BOOLEAN :
         LET email_id == StrOf(email_data.email_id, StrUnknown)
         IN  /\ use_cache' = uc
             /\ IF Falsy(email_data)
                THEN /\ results' = ListAppend(results, InvalidResult)
                     /\ diag' = Append(diag, [kind |-> "invalid", email_id |-> StrUnknown])
                     /\ args' = [email_data |-> email_data, use_cache |-> uc]
                     /\ UNCHANGED <<cache, processed_emails>>
                ELSE IF IsHeaderId(email_id)
                THEN /\ results' = ListAppend(results, None)
                     /\ diag' = Append(diag, [kind |-> "header", email_id |-> email_id])
                     /\ args' = [email_data |-> email_data, use_cache |-> uc]
                     /\ UNCHANGED <<cache, processed_emails>>
                ELSE IF uc /\ CacheKeyRaises(email_id)
                THEN /\ results' = ListAppend(results, Raised(MsgEncode))
                     /\ diag' = Append(diag, [kind |-> "raised", email_id |-> email_id])
                     /\ args' = [email_data |-> email_data, use_cache |-> uc]
                     /\ UNCHANGED <<cache, processed_emails>>
                ELSE IF uc /\ email_id \in DOMAIN cache
                THEN /\ results' = ListAppend(results, cache[email_id])
                     /\ diag' = Append(diag, [kind |-> "cached", email_id |-> email_id])
                     /\ args' = [email_data |-> email_data, use_cache |-> uc]
                     /\ UNCHANGED <<cache, processed_emails>>
                ELSE \E o \in OrchestratorOutcomes :
                       LET filled == FillRequired(email_data)
                           result == StateToDict(filled, o)
                       IN  /\ args' = [email_data |-> filled, use_cache |-> uc]
                           /\ diag' = Append(diag, [kind |-> "processing",
                                                    email_id |-> email_id])
                           /\ cache' = IF CacheKeyRaises(email_id) THEN cache
                                       ELSE Store(cache, email_id, result)
                           /\ processed_emails' = Store(processed_emails, email_id, result)
                           /\ results' = ListAppend(results, result)
    /\ UNCHANGED <<graphVars, appVars, pc, content, parts, i, data, decodeVars, csvVars, clock,
                   validatorVars, body_runs, ret, batch_i>>

NextCache == ProcessEmail

SpecCache == InitCache /\ [][NextCache]_vars

\* ------------------------------------------ agents: the processing graph
\* config/settings.py
CategoryUrgent == <<"U", "r", "g", "e", "n", "t">>
CategoryNewsletter == <<"N", "e", "w", "s", "l", "e", "t", "t", "e", "r">>
CategorySpam == <<"S", "p", "a", "m">>
CategoryFinancial == <<"F", "i", "n", "a", "n", "c", "i", "a", "l">>
CategoryMeeting == <<"M", "e", "e", "t", "i", "n", "g">>
CategorySocial == <<"S", "o", "c", "i", "a", "l">>
PriorityCritical == <<"C", "r", "i", "t", "i", "c", "a", "l">>
PriorityLow == <<"L", "o", "w">>
ActionSchedule == <<"S", "c", "h", "e", "d", "u", "l", "e", SP, "M", "e", "e", "t", "i", "n", "g">>
ActionSpam == <<"M", "a", "r", "k", SP, "a", "s", SP, "S", "p", "a", "m">>
ActionForward == <<"F", "o", "r", "w", "a", "r", "d">>
ActionDelete == <<"D", "e", "l", "e", "t", "e">>
ActionCalendar == <<"A", "d", "d", SP, "t", "o", SP, "C", "a", "l", "e", "n", "d", "a", "r">>
StatusPending == <<"p", "e", "n", "d", "i", "n", "g">>
StatusProcessing == <<"p", "r", "o", "c", "e", "s", "s", "i", "n", "g">>
MsgKey ==
    <<"G", "R", "O", "Q", "_", "A", "P", "I", "_", "K", "E", "Y", SP, "i", "s", SP, "n",
      "o", "t", SP, "s", "e", "t">>
MsgJson == <<"E", "x", "p", "e", "c", "t", "i", "n", "g", SP, "v", "a", "l", "u", "e">>
MsgAttr == <<"n", "o", SP, "a", "t", "t", "r", "i", "b", "u", "t", "e", SP, "g", "e", "t">>
MsgFloat == <<"c", "o", "u", "l", "d", SP, "n", "o", "t", SP, "c", "o", "n", "v", "e", "r", "t">>
MsgMultiple ==
    <<"m", "u", "l", "t", "i", "p", "l", "e", SP, "v", "a", "l", "u", "e", "s", SP, "f",
      "o", "r", SP, "k", "e", "y", "w", "o", "r", "d">>
NotApplicable == <<"N", "/", "A">>
ErrorInProcessing ==
    <<"E", "r", "r", "o", "r", SP, "i", "n", SP, "p", "r", "o", "c", "e", "s", "s", "i",
      "n", "g", ":", SP>>
Half == <<"0", ".", "5">>
Zero == <<"0", ".", "0">>
NineTenths == <<"0", ".", "9">>
StrHigh == <<"h", "i", "g", "h">>

EMAIL_CATEGORIES ==
    {CategoryWork, CategoryPersonal, CategoryUrgent, CategoryNewsletter, CategorySpam,
     CategoryFinancial, CategoryMeeting, CategorySocial}
PRIORITY_LEVELS == {PriorityCritical, PriorityHigh, PriorityMedium, PriorityLow}
RECOMMENDED_ACTIONS ==
    {ActionReply, ActionSchedule, ActionArchive, ActionSpam, ActionForward, ActionFlag,
     ActionDelete, ActionCalendar}

\* EmailProcessingState.__annotations__
Annotations ==
    Fields \cup {"category", "priority", "confidence_score", "key_info",
                 "action_recommendation", "draft_response", "reasoning",
                 "processing_status", "error_message"}

\* The keys a dict holds.
KeysOf(d) == {k \in DOMAIN d : d[k] /= Missing}

\* initial_state of process_email
InitialState(email_data) ==
    [email_id |-> StrOf(email_data.email_id, StrUnknown),
     sender_email |-> GetOr(email_data.sender_email, <<>>),
     sender_name |-> GetOr(email_data.sender_name, <<>>),
     subject |-> GetOr(email_data.subject, <<>>),
     body |-> GetOr(email_data.body, <<>>),
     timestamp |-> GetOr(email_data.timestamp, <<>>),
     has_attachment |-> Truthy(email_data.has_attachment),
     thread_id |-> StrOf(email_data.thread_id, <<>>),
     category |-> NoneValue, priority |-> NoneValue, confidence_score |-> NoneValue,
     key_info |-> NoneValue, action_recommendation |-> NoneValue,
     draft_response |-> NoneValue, reasoning |-> NoneValue,
     processing_status |-> StatusPending, error_message |-> NoneValue]

\* The state the except branch of process_email returns: the keys of
\* email_data the state knows, then the status and the message. A key
\* processing_status or error_message in email_data is a second value for
\* the same keyword: the constructor raises TypeError out of process_email.
ExceptRaises(email_data) ==
    KeysOf(email_data) \cap {"processing_status", "error_message"} /= {}
ExceptState(email_data, msg) ==
    [k \in (KeysOf(email_data) \cap Annotations) \cup {"processing_status", "error_message"} |->
        IF k = "processing_status" THEN StatusError
        ELSE IF k = "error_message" THEN msg
        ELSE email_data[k]]

\* What a node's return value does to the state of the graph: its keys
\* replace the state's.
Merge(st, update) ==
    [k \in DOMAIN st |-> IF k \in DOMAIN update THEN update[k] ELSE st[k]]

\* What the language model may do when a stage invokes it: the call raises;
\* the content is no JSON; the JSON is no object (a list, a string, null);
\* or it is an object whose key for the stage's answer is absent, null, a
\* text outside the stage's list (here the lower-cased first member) or a
\* member of it, and whose other keys are as extra says.
LlmResponses(members, extras) ==
    {[kind |-> "raises"], [kind |-> "not_json"], [kind |-> "not_object"]}
    \cup {[kind |-> "object", value |-> v, extra |-> x] :
             v \in members \cup {Missing, NoneValue, Lower(CategoryWork)},
             x \in extras}

\* The message of the exception a stage catches for the response r.
MsgOf(r) ==
    IF r.kind = "raises" THEN MsgFailure
    ELSE IF r.kind = "not_json" THEN MsgJson
    ELSE IF r.kind = "not_object" THEN MsgAttr
    ELSE MsgFloat

\* The "confidence" of an answer: absent, a number, null, a text.
ConfidenceValues == {Missing, NineTenths, NoneValue, StrHigh}

\* classify_email with the status "error" on a failure, as the architect has.
ClassifyEmailErrorStatus(st, r) ==
    IF r.kind = "object" /\ r.extra \in {Missing, NineTenths}
    THEN LET category == GetOr(r.value, CategoryPersonal)
         IN  [category |-> IF category \in EMAIL_CATEGORIES THEN category
                           ELSE CategoryPersonal,
              confidence_score |-> GetOr(r.extra, Half),
              processing_status |-> StatusProcessing]
    ELSE [category |-> CategoryPersonal,
          confidence_score |-> Zero,
          processing_status |-> StatusError,
          error_message |-> MsgOf(r)]

\* EmailClassifierAgent.classify_email: extra is the "confidence" of the
\* answer: absent, a number, null or a text float() does not take.
classify_email(st, r) ==
    IF r.kind = "object" /\ r.extra \in {Missing, NineTenths}
    THEN LET category == GetOr(r.value, CategoryPersonal)
         IN  [category |-> IF category \in EMAIL_CATEGORIES THEN category
                           ELSE CategoryPersonal,
              confidence_score |-> GetOr(r.extra, Half),
              processing_status |-> StatusProcessing]
    ELSE [category |-> CategoryPersonal,
          confidence_score |-> Zero,
          processing_status |-> StatusProcessing,
          error_message |-> MsgOf(r)]

\* prioritize_email with a fallback that clears the message.
PrioritizeEmailClearsMessage(st, r) ==
    IF r.kind = "object"
    THEN LET priority == GetOr(r.value, PriorityMedium)
         IN  [priority |-> IF priority \in PRIORITY_LEVELS THEN priority
                           ELSE PriorityMedium,
              processing_status |-> StatusProcessing]
    ELSE [priority |-> PriorityMedium,
          processing_status |-> StatusProcessing,
          error_message |-> NoneValue]

\* EmailPrioritizationAgent.prioritize_email
prioritize_email(st, r) ==
    IF r.kind = "object"
    THEN LET priority == GetOr(r.value, PriorityMedium)
         IN  [priority |-> IF priority \in PRIORITY_LEVELS THEN priority
                           ELSE PriorityMedium,
              processing_status |-> StatusProcessing]
    ELSE [priority |-> PriorityMedium,
          processing_status |-> StatusProcessing,
          error_message |-> MsgOf(r)]

\* architect_response without the check of the action against the list.
ArchitectResponseUnchecked(st, r) ==
    IF r.kind = "object"
    THEN [action_recommendation |-> GetOr(r.value, ActionArchive),
          key_info |-> GetOr(r.extra, <<"{", "}">>),
          draft_response |-> GetOr(r.extra, NotApplicable),
          reasoning |-> GetOr(r.extra, <<>>),
          processing_status |-> StatusCompleted]
    ELSE [action_recommendation |-> ActionFlag,
          key_info |-> <<"{", "}">>,
          draft_response |-> NotApplicable,
          reasoning |-> ErrorInProcessing \o MsgOf(r),
          processing_status |-> StatusError,
          error_message |-> MsgOf(r)]

\* ResponseArchitectAgent.architect_response: extra is what the answer holds
\* under "key_info", "draft_response" and "reasoning" (absent, or a text).
EmptyJson == <<"{", "}">>
architect_response(st, r) ==
    IF r.kind = "object"
    THEN LET action == GetOr(r.value, ActionArchive)
         IN  [action_recommendation |-> IF action \in RECOMMENDED_ACTIONS THEN action
                                        ELSE ActionArchive,
              key_info |-> GetOr(r.extra, EmptyJson),
              draft_response |-> GetOr(r.extra, NotApplicable),
              reasoning |-> GetOr(r.extra, <<>>),
              processing_status |-> StatusCompleted]
    ELSE [action_recommendation |-> ActionFlag,
          key_info |-> EmptyJson,
          draft_response |-> NotApplicable,
          reasoning |-> ErrorInProcessing \o MsgOf(r),
          processing_status |-> StatusError,
          error_message |-> MsgOf(r)]

\* The dicts the orchestrator is called with: a well-formed record, one
\* without email_id and has_attachment, and a record processed before.
GraphPool ==
    {BaseRecord,
     [BaseRecord EXCEPT !.email_id = Missing, !.has_attachment = Missing],
     [k \in Fields \cup {"processing_status"} |->
        IF k = "processing_status" THEN StatusCompleted ELSE BaseRecord[k]]}

InitGraph ==
    /\ pc = "idle"
    /\ args \in {[email_data |-> e] : e \in GraphPool}
    /\ ret = NoneValue
    /\ state = None
    /\ stages = <<>>
    /\ use_cache = FALSE
    /\ cache = EmptyMap
    /\ processed_emails = EmptyMap
    /\ results = <<>>
    /\ diag = <<>>
    /\ batch_i = 0
    /\ emails = <<>>
    /\ cleaned_emails = <<>>
    /\ j = 0
    /\ body_runs = <<>>
    /\ record = None
    /\ cleaned = None
    /\ clock = 0
    /\ content = <<>>
    /\ parts = <<>>
    /\ uploaded_file = NoFile
    /\ enc = 0
    /\ i = 0
    /\ data = <<>>
    /\ processed_data = <<>>
    /\ search_query = <<>>
    /\ filter_prio = {}
    /\ filter_cat = {}
    /\ filtered_emails = <<>>

\* The line a stage logs: logger.info on success, logger.error on failure.
StageLine(stage, update, st) ==
    [kind |-> IF "error_message" \in DOMAIN update THEN stage \o "_error" ELSE stage,
     email_id |-> st.email_id]

\* The graph raised: the except branch of process_email logs the error and
\* returns its state, or raises itself.
GraphRaised(msg) ==
    /\ diag' = Append(diag, [kind |-> "graph_error", email_id |-> state.email_id])
    /\ IF ExceptRaises(args.email_data)
       THEN /\ state' = Raised(MsgMultiple)
            /\ pc' = "raised"
       ELSE /\ state' = ExceptState(args.email_data, msg)
            /\ pc' = "returned"

\* EmailProcessingOrchestrator.process_email is entered: the initial state
\* is built and the graph invoked at its entry point.
ProcessEmailStart ==
    /\ pc = "idle"
    /\ state' = InitialState(args.email_data)
    /\ stages' = <<>>
    /\ pc' = "classify"
    /\ UNCHANGED <<content, parts, i, data, diag, decodeVars, csvVars, clock,
                   validatorVars, body_runs, utilVars, processorVars, appVars>>

\* classifier_node: the agent is built (get_llm may raise, which the graph
\* does not catch), then classify_email runs on what the model answers.
ClassifierNode ==
    /\ pc = "classify"
    /\ \/ /\ GraphRaised(MsgKey)
          /\ UNCHANGED <<stages, args>>
       \/ \E r \in LlmResponses(EMAIL_CATEGORIES, ConfidenceValues) :
            /\ state' = Merge(state, classify_email(state, r))
            /\ diag' = Append(diag, StageLine("classify", classify_email(state, r), state))
            /\ stages' = Append(stages, "classify")
            /\ args' = [email_data |-> args.email_data, response |-> r]
            /\ pc' = "prioritize"
    /\ UNCHANGED <<content, parts, i, data, decodeVars, csvVars, clock,
                   validatorVars, body_runs, ret, processorVars, appVars>>

\* prioritization_node
PrioritizationNode ==
    /\ pc = "prioritize"
    /\ \/ /\ GraphRaised(MsgKey)
          /\ UNCHANGED <<stages, args>>
       \/ \E r \in LlmResponses(PRIORITY_LEVELS, {Missing}) :
            /\ state' = Merge(state, prioritize_email(state, r))
            /\ diag' = Append(diag, StageLine("prioritize", prioritize_email(state, r), state))
            /\ stages' = Append(stages, "prioritize")
            /\ args' = [email_data |-> args.email_data, response |-> r]
            /\ pc' = "architect"
    /\ UNCHANGED <<content, parts, i, data, decodeVars, csvVars, clock,
                   validatorVars, body_runs, ret, processorVars, appVars>>

\* response_architect_node, after which the graph ends and process_email
\* returns the state.
ResponseArchitectNode ==
    /\ pc = "architect"
    /\ \/ /\ GraphRaised(MsgKey)
          /\ UNCHANGED <<stages, args>>
       \/ \E r \in LlmResponses(RECOMMENDED_ACTIONS, {Missing, NotApplicable}) :
            /\ state' = Merge(state, architect_response(state, r))
            /\ diag' = diag \o <<StageLine("architect", architect_response(state, r), state),
                                 [kind |-> "processed", email_id |-> state.email_id]>>
            /\ stages' = Append(stages, "architect")
            /\ args' = [email_data |-> args.email_data, response |-> r]
            /\ pc' = "returned"
    /\ UNCHANGED <<content, parts, i, data, decodeVars, csvVars, clock,
                   validatorVars, body_runs, ret, processorVars, appVars>>

NextGraph ==
    ProcessEmailStart \/ ClassifierNode \/ PrioritizationNode \/ ResponseArchitectNode

SpecGraph == InitGraph /\ [][NextGraph]_vars

\* ------------------------------------------------------------ the app
COLON == ":"
CategoryInbox == <<"I", "n", "b", "o", "x">>
ManualSender == <<"m", "a", "n", "u", "a", "l", AT, "i", "n", "p", "u", "t", ".", "c", "o", "m">>
ManualSubject == <<"(">> \o NoSubject \o <<")">>
ManualIdPrefix == <<"m", "a", "n", "_">>
StatusPendingCap == <<"P", "e", "n", "d", "i", "n", "g">>
StatusProcessed == <<"P", "r", "o", "c", "e", "s", "s", "e", "d">>
StatusErrorCap == <<"E", "r", "r", "o", "r">>
KeyFrom == <<"f", "r", "o", "m">>
KeyName == <<"n", "a", "m", "e">>
KeySubject == <<"s", "u", "b", "j", "e", "c", "t">>
KeyCategory == <<"c", "a", "t", "e", "g", "o", "r", "y">>
KeyPriority == <<"p", "r", "i", "o", "r", "i", "t", "y">>

\* How many emails are added by hand in a session.
MaxAdds == 1

\* The keys a dict of processed_data may hold; an absent key is Missing.
AppKeys == Annotations \cup {"status"}
Dict(d) == [k \in AppKeys |-> IF k \in DOMAIN d THEN d[k] ELSE Missing]

\* A bool in a dict of processed_data.
BoolMark(b) == IF b THEN <<"bool True">> ELSE <<"bool False">>

\* dict.update(res)
DictUpdate(d, res) ==
    [k \in DOMAIN d |-> IF k \in DOMAIN res /\ res[k] /= Missing THEN res[k] ELSE d[k]]

\* The loop of parse_manual_email over the lines of the text.
RECURSIVE ParseManualLines(_, _, _, _)
ParseManualLines(lines, email, body_lines, headers_done) ==
    IF lines = <<>> THEN [email |-> email, body_lines |-> body_lines]
    ELSE LET line == Head(lines)
         IN  IF ~headers_done /\ Contains(line, <<COLON>>)
             THEN LET p == CHOOSE n \in 1..Len(line) :
                             line[n] = COLON /\ \A m \in 1..(n - 1) : line[m] /= COLON
                      k == Lower(Strip(Slice(line, 1, p - 1)))
                      v == Strip(Slice(line, p + 1, Len(line)))
                  IN  IF k = KeyFrom
                      THEN ParseManualLines(Tail(lines), [email EXCEPT !.sender_email = v],
                                            body_lines, headers_done)
                      ELSE IF k = KeyName
                      THEN ParseManualLines(Tail(lines), [email EXCEPT !.sender_name = v],
                                            body_lines, headers_done)
                      ELSE IF k = KeySubject
                      THEN ParseManualLines(Tail(lines), [email EXCEPT !.subject = v],
                                            body_lines, headers_done)
                      ELSE IF k = KeyCategory
                      THEN ParseManualLines(Tail(lines), [email EXCEPT !.category = v],
                                            body_lines, headers_done)
                      ELSE IF k = KeyPriority
                      THEN ParseManualLines(Tail(lines), [email EXCEPT !.priority = v],
                                            body_lines, headers_done)
                      ELSE ParseManualLines(Tail(lines), email, Append(body_lines, line),
                                            headers_done)
             ELSE ParseManualLines(Tail(lines), email, Append(body_lines, line),
                                   headers_done \/ Strip(line) = <<>>)

\* parse_manual_email(text) at the clock reading now
parse_manual_email(text, now) ==
    LET email == Dict([email_id |-> ManualIdPrefix \o <<ToString(now)>>,
                       sender_name |-> StrUnknownCap,
                       sender_email |-> ManualSender,
                       subject |-> ManualSubject,
                       body |-> text,
                       timestamp |-> IsoFormat(now),
                       category |-> CategoryInbox,
                       priority |-> PriorityMedium,
                       status |-> StatusPendingCap])
        r == ParseManualLines(SplitLines(Strip(text)), email, <<>>, FALSE)
    IN  [r.email EXCEPT !.body = Strip(JoinLines(r.body_lines))]

\* clean_and_load_emails as the app calls it: the first encoding that
\* decodes the file, then one record per row that splits.
RECURSIVE DecodeFrom(_, _)
DecodeFrom(file, e) ==
    IF e >= Len(Encodings) THEN NoneValue
    ELSE LET r == ReadDecode(file, Encodings[e + 1])
         IN  IF r.ok THEN r.text ELSE DecodeFrom(file, e + 1)

RECURSIVE RowsFrom(_, _)
RowsFrom(ps, n) ==
    IF n >= Len(ps) THEN <<>>
    ELSE LET r == ProcessRow(At(ps, n), At(ps, n + 1))
         IN  IF r.kind = "record" THEN <<RecordOf(r)>> \o RowsFrom(ps, RangeStep(n))
             ELSE RowsFrom(ps, AfterSkip(n, Len(ps)))

clean_and_load_emails(file) ==
    LET text == DecodeFrom(file, 0)
    IN  IF text = NoneValue THEN <<>> ELSE RowsFrom(PatternSplit(text), 1)

\* What the language model and the graph do for one email: a node raises
\* before any stage ran, or the three stages run, the prioritizer getting
\* the answer priority (Critical or High).
AppAnswers ==
    {[kind |-> "graph_raises"]}
    \cup {[kind |-> "stages", priority |-> r] :
            r \in {[kind |-> "object", value |-> v, extra |-> Missing] :
                     v \in {PriorityCritical, PriorityHigh}}}
ClassifyAnswer == [kind |-> "object", value |-> CategoryFinancial, extra |-> NineTenths]
ArchitectAnswer == [kind |-> "object", value |-> ActionReply, extra |-> Missing]

\* The state after each node of the graph.
AfterClassify(s0) == Merge(s0, classify_email(s0, ClassifyAnswer))
AfterPrioritize(s1, r) == Merge(s1, prioritize_email(s1, r))
AfterArchitect(s2) == Merge(s2, architect_response(s2, ArchitectAnswer))
WithBoolMark(s3) == [s3 EXCEPT !.has_attachment = BoolMark(@)]

\* EmailProcessingOrchestrator.process_email(email_data) under the answer a.
OrchestratorResult(email_data, a) ==
    IF a.kind = "graph_raises"
    THEN IF ExceptRaises(email_data) THEN Raised(MsgMultiple)
         ELSE ExceptState(email_data, MsgKey)
    ELSE WithBoolMark(AfterArchitect(AfterPrioritize(AfterClassify(InitialState(email_data)),
                                                     a.priority)))

\* email.update(res); email['status'] = 'Processed', or the except branch.
MergedInto(email, res, failed) ==
    IF "raised" \in DOMAIN res THEN failed
    ELSE [DictUpdate(email, res) EXCEPT !.status = StatusProcessed]

\* One turn of the loop over raw_data: the result is merged into the record.
IngestRecord(email, a) ==
    MergedInto(email, OrchestratorResult(email, a), [email EXCEPT !.status = StatusErrorCap])
IngestOne(email, a) == IngestRecord(Dict(email), a)

\* The record the "Add Email" button makes of the text.
ProcessManual(new_email, a) == MergedInto(new_email, OrchestratorResult(new_email, a), new_email)
ManualEmail(text, now, a) == ProcessManual(parse_manual_email(text, now), a)

\* The files a user uploads: a header and no row, one row, two rows.
AppFiles ==
    {[bytes |-> HeaderLine \o RowsText(rows), readable |-> TRUE] :
        rows \in {<<>>, <<RowPlain>>, <<RowPlain, RowQuoted>>}}

\* raw_data = clean_and_load_emails(uploaded_file), for each of the files
\* (nothing is read when there is no file).
RawData == [file \in AppFiles |-> clean_and_load_emails(file)]
RawDataOf(file) == IF file = NoFile THEN <<>> ELSE RawData[file]

\* the upload block run whenever a file is there
IngestAlways(file, pd) == file /= NoFile

\* if uploaded_file and not st.session_state.processed_data
IngestAllowed(file, pd) == file /= NoFile /\ pd = <<>>

\* processed_data.append(new_email) in the place of insert(0, new_email)
InsertAtEnd(list, x) == Append(list, x)

\* st.session_state.processed_data.insert(0, new_email)
Insert0(list, x) == <<x>> \o list

\* One run of the script up to the filters (a run that ingests a file ends
\* with st.rerun() before the button is looked at; the run that follows
\* changes nothing): what processed_data is after it.
ScriptRun(file, raw_data, pd, button, text, now, answers) ==
    IF IngestAllowed(file, pd) /\ raw_data /= <<>>
    THEN [k \in 1..Len(raw_data) |-> IngestOne(raw_data[k], answers[k])]
    ELSE IF button THEN Insert0(pd, ManualEmail(text, now, answers[1]))
    ELSE pd

\* The answers a run of the script draws: one per record of the file it
\* ingests, one for the email it adds, none otherwise.
AnswersFor(file, raw_data, pd, button) ==
    IF IngestAllowed(file, pd) /\ raw_data /= <<>>
    THEN [1..Len(raw_data) -> AppAnswers]
    ELSE IF button THEN [1..1 -> AppAnswers]
    ELSE {<<>>}

\* The options of the two multiselects.
PriorityOptions == {PriorityHigh, PriorityMedium, PriorityLow}
StdCats == {CategoryWork, CategoryPersonal, CategoryNewsletter, CategoryUrgent,
            CategorySpam, CategoryInbox}
AllCats(pd) == {GetOr(pd[k].category, CategoryInbox) : k \in 1..Len(pd)} \cup StdCats

\* The three filters of the inbox list.
MatchesSearch(e, q) ==
    \/ Contains(Lower(StrOf(e.subject, <<>>)), q)
    \/ Contains(Lower(StrOf(e.sender_name, <<>>)), q)
MatchesPriority(e, fp) ==
    GetOr(e.priority, StrUnknownCap) \in fp \/ e.priority = StrUnknownCap
MatchesCategory(e, fc) == GetOr(e.category, CategoryInbox) \in fc
Filtered(pd, q, fp, fc) ==
    LET bySearch == IF q /= <<>> THEN SelectSeq(pd, LAMBDA e : MatchesSearch(e, Lower(q)))
                    ELSE pd
        byPrio == IF fp /= {} THEN SelectSeq(bySearch, LAMBDA e : MatchesPriority(e, fp))
                  ELSE bySearch
    IN  IF fc /= {} THEN SelectSeq(byPrio, LAMBDA e : MatchesCategory(e, fc)) ELSE byPrio

\* The texts a user pastes.
ManualTexts ==
    {<<"h", "e", "l", "l", "o">>,
     <<"P", "r", "i", "o", "r", "i", "t", "y", COLON, SP>> \o PriorityCritical
       \o <<NL, "S", "u", "b", "j", "e", "c", "t", COLON, "U", "p", NL, NL,
            "s", "e", "e", COLON, SP, "x">>}

\* The settings of the search box and the two multiselects a user makes.
FilterSettings(pd) ==
    {<<<<>>, PriorityOptions, AllCats(pd)>>,
     <<<<"U", "P">>, {PriorityHigh}, AllCats(pd)>>,
     <<<<>>, {}, {CategoryInbox}>>}

InitApp ==
    /\ pc = "start"
    /\ uploaded_file = NoFile
    /\ processed_data = <<>>
    /\ search_query = <<>>
    /\ filter_prio = PriorityOptions
    /\ filter_cat = AllCats(<<>>)
    /\ filtered_emails = <<>>
    /\ args = None
    /\ ret = NoneValue
    /\ state = None
    /\ stages = <<>>
    /\ use_cache = FALSE
    /\ cache = EmptyMap
    /\ processed_emails = EmptyMap
    /\ results = <<>>
    /\ diag = <<>>
    /\ batch_i = 0
    /\ emails = <<>>
    /\ cleaned_emails = <<>>
    /\ j = 0
    /\ body_runs = <<>>
    /\ record = None
    /\ cleaned = None
    /\ clock = 0
    /\ content = <<>>
    /\ parts = <<>>
    /\ enc = 0
    /\ i = 0
    /\ data = <<>>

\* The category multiselect after a run: a multiselect whose options
\* changed is a new widget, at its default.
CategoryWidget(before, pd, fc) ==
    IF AllCats(pd) = AllCats(before) THEN fc ELSE AllCats(pd)

\* What a run of the script leaves: processed_data, the widgets and the
\* list shown.
Leave(file, pd, button, q, fp, fc) ==
    /\ uploaded_file' = file
    /\ processed_data' = pd
    /\ search_query' = q
    /\ filter_prio' = fp
    /\ filter_cat' = fc
    /\ filtered_emails' = Filtered(pd, q, fp, fc)
    /\ pc' = IF button THEN "add" ELSE "run"
    /\ UNCHANGED <<content, parts, i, data, diag, enc, csvVars, clock, validatorVars,
                   body_runs, utilVars, processorVars, graphVars>>

\* A run of the script with the widgets as given: the file in the uploader,
\* whether the button was pressed, the text of the text area, the filters.
\* The clock stands still during a session.
ShowInbox(file, pd, button, q, fp, fc) ==
    Leave(file, pd, button, q, fp, CategoryWidget(processed_data, pd, fc))
RunWith(file, raw_data, button, text, q, fp, fc) ==
    \E answers \in AnswersFor(file, raw_data, processed_data, button) :
        ShowInbox(file, ScriptRun(file, raw_data, processed_data, button, text, clock, answers),
                  button, q, fp, fc)
RunScript(file, button, text, q, fp, fc) ==
    RunWith(file, RawDataOf(file), button, text, q, fp, fc)

\* The user puts a file into the uploader.
UploadFile ==
    \E file \in AppFiles :
        /\ file /= uploaded_file
        /\ RunScript(file, FALSE, <<>>, search_query, filter_prio, filter_cat)

\* The user takes the file out of the uploader.
RemoveFile ==
    /\ uploaded_file /= NoFile
    /\ RunScript(NoFile, FALSE, <<>>, search_query, filter_prio, filter_cat)

\* The user presses "Add Email" with a text in the text area.
AddEmail ==
    /\ Len(SelectSeq(processed_data, LAMBDA e : StartsWith(e.email_id, ManualIdPrefix))) < MaxAdds
    /\ \E text \in ManualTexts :
         RunScript(uploaded_file, TRUE, text, search_query, filter_prio, filter_cat)

\* The user changes the search text or a selection of the sidebar.
SetFilters ==
    \E f \in FilterSettings(processed_data) :
        /\ f /= <<search_query, filter_prio, filter_cat>>
        /\ RunScript(uploaded_file, FALSE, <<>>, f[1], f[2], f[3])

NextApp == UploadFile \/ RemoveFile \/ AddEmail \/ SetFilters

SpecApp == InitApp /\ [][NextApp]_vars

\* ------------------------------------------------- what the claims speak of
\* A row boundary stands at p and ends at e: a newline, a quote, one or more
\* digits (the last one at e), a comma.
BoundaryFrom(s, p, e) ==
    /\ s[p] = NL
    /\ s[p + 1] = QT
    /\ \A k \in (p + 2)..e : s[k] \in Digits
    /\ s[e + 1] = COMMA

\* The elements of a finite set of numbers, smallest first.
RECURSIVE Sorted(_)
Sorted(S) ==
    IF S = {} THEN <<>>
    ELSE LET lo == CHOOSE x \in S : \A y \in S : x <= y
         IN  <<lo>> \o Sorted(S \ {lo})

\* The boundaries of s in document order, each as <<p, e>>.
Boundaries(s) ==
    LET at == {p \in 1..(Len(s) - 3) :
                 s[p] = NL /\ \E e \in (p + 2)..(Len(s) - 1) : BoundaryFrom(s, p, e)}
        order == Sorted(at)
    IN  [k \in 1..Len(order) |->
           <<order[k], CHOOSE e \in (order[k] + 2)..(Len(s) - 1) : BoundaryFrom(s, order[k], e)>>]

\* The digits captured at the boundary b.
CapturedAt(s, b) == SubSeq(s, b[1] + 2, b[2])

\* The text between the k-th of the boundaries bs and the next one (or the end).
SegmentAfter(s, bs, k) ==
    Slice(s, bs[k][2] + 2, IF k < Len(bs) THEN bs[k + 1][1] - 1 ELSE Len(s))

\* The (id, segment) pairs of parts, and how many of them the loop has passed.
NumPairs == (Len(parts) - 1) \div 2
PairId(k) == parts[2 * k]
PairSegment(k) == parts[2 * k + 1]
PairsDone == IF pc = "split" THEN 0
             ELSE IF i >= Len(parts) THEN NumPairs ELSE (i - 1) \div 2

IdsOf(records) == [k \in 1..Len(records) |-> records[k].email_id]

\* a is b with some elements left out, the rest in b's order.
RECURSIVE IsSubseq(_, _)
IsSubseq(a, b) ==
    IF Len(a) = 0 THEN TRUE
    ELSE IF Len(b) = 0 THEN FALSE
         ELSE IF a[1] = b[1] THEN IsSubseq(Tail(a), Tail(b))
              ELSE IsSubseq(a, Tail(b))

\* The lines printed for skipped rows.
SkipLines == SelectSeq(diag, LAMBDA d : d.kind \in {"skip_right", "skip_left"})

\* s cut at every comma.
SplitAll(s) == SplitLeft(s, Len(s))

\* s without its double-quote characters.
WithoutQuotes(s) == SelectSeq(s, LAMBDA c : c /= QT)

\* toks[a..b] joined by commas.
RECURSIVE JoinCommas(_, _, _)
JoinCommas(toks, a, b) ==
    IF a > b THEN <<>>
    ELSE IF a = b THEN toks[a]
         ELSE toks[a] \o <<COMMA>> \o JoinCommas(toks, a + 1, b)

\* --------------------------------------------------------------- C1
\* C1 (boundary completeness): once the text is split, parts holds the header
\* and one (id, segment) pair for each occurrence of newline + quote + digits
\* + comma in the text, in document order: the k-th id is the digit string
\* captured at the k-th occurrence and the k-th segment is the text up to the
\* next occurrence; when the loop ends it has passed every pair.
C1_BoundaryCompleteness ==
    pc /= "split" =>
        LET bs == Boundaries(content)
            n == Len(bs)
        IN  /\ Len(parts) = 2 * n + 1
            /\ \A k \in 1..n :
                 /\ PairId(k) = CapturedAt(content, bs[k])
                 /\ PairSegment(k) = SegmentAfter(content, bs, k)
            /\ pc \in {"loaded", "done"} => Len(data) + Len(SkipLines) = n

\* Two rows have been split off, one of them with a two-digit id.
C1_Witness ==
    /\ pc = "loaded"
    /\ NumPairs = 2
    /\ PairId(1) = <<"1", "2">>
    /\ PairId(2) = <<"2">>

\* --------------------------------------------------------------- C2
\* C2 (header discard): the text before the first boundary is parts[0] and no
\* record is made of it: every record returned carries the id captured at a
\* boundary and is the record of the segment that follows that boundary, and
\* a text with no boundary yields no record at all.
C2_HeaderDiscard ==
    pc \in {"loaded", "done"} =>
        LET bs == Boundaries(content)
            n == Len(bs)
            first == IF n = 0 THEN Len(content) + 1 ELSE bs[1][1]
        IN  /\ parts[1] = Slice(content, 1, first - 1)
            /\ Len(data) <= n
            /\ \A r \in 1..Len(data) :
                 \E k \in 1..n :
                    LET row == ProcessRow(CapturedAt(content, bs[k]),
                                          SegmentAfter(content, bs, k))
                    IN  row.kind = "record" /\ data[r] = RecordOf(row)
            /\ n = 0 => data = <<>> /\ emails = <<>>
            /\ \A r \in 1..Len(cleaned_emails) :
                 \E k \in 1..n :
                    cleaned_emails[r].email_id = CapturedAt(content, bs[k])

\* A file whose first line is itself a row has been loaded: that line is the
\* header, and only the row after it became a record.
C2_Witness ==
    /\ pc = "done"
    /\ parts[1] = HeaderRowLike
    /\ Len(data) = 1
    /\ Len(cleaned_emails) = 1

\* A file with nothing but a row-like first line yields no record.
C2_WitnessEmpty ==
    /\ pc = "done"
    /\ content = HeaderRowLike
    /\ data = <<>>

\* --------------------------------------------------------------- C3
\* The prepared segment of pair k cut at every comma.
TokensOf(k) == SplitAll(PrepareRow(PairSegment(k)))

\* The index in data of the record of pair k, when every segment with seven
\* or more tokens before it has given one record.
RecordIndex(k) == Cardinality({m \in 1..k : Len(TokensOf(m)) >= 7})

\* The record of the example row after load_emails_from_csv.
ExampleRecord ==
    [email_id |-> <<"1">>,
     sender_email |-> <<"a", AT, "b", ".", "c", "o", "m">>,
     sender_name |-> <<"N", "a", "m", "e">>,
     subject |-> <<"S", "u", "b", "j">>,
     body |-> <<"l", "i", "n", "e", "1", NL, "l", "i", "n", "e", "2">>,
     timestamp |-> <<"2", "0", "2", "5", "-", "0", "1", "-", "0", "1", "T", "0", "0", ":", "0", "0", ":", "0", "0", "Z">>,
     has_attachment |-> TRUE,
     thread_id |-> <<"t", "h", "r", "e", "a", "d", "_", "9">>]

\* C3 (right-then-left split): every segment the loop has passed that holds at
\* least seven comma-delimited tokens (three leading columns, a body, three
\* trailing columns) has its record in data, with email_id the captured
\* digits, sender_email, sender_name and subject the first three tokens of
\* the prepared segment, timestamp, has_attachment and thread_id the last
\* three, and a body that is the text between the third comma and the
\* third-from-last one, commas and newlines kept (only double quotes may
\* differ); and the example row is loaded as the record of the example.
C3_SplitCorrectness ==
    /\ \A k \in 1..PairsDone :
         LET toks == TokensOf(k)
             n == Len(toks)
             r == RecordIndex(k)
         IN  n >= 7 =>
               /\ r <= Len(data)
               /\ data[r].email_id = PairId(k)
               /\ data[r].sender_email = toks[1]
               /\ data[r].sender_name = toks[2]
               /\ data[r].subject = toks[3]
               /\ WithoutQuotes(data[r].body) = WithoutQuotes(JoinCommas(toks, 4, n - 3))
               /\ data[r].timestamp = toks[n - 2]
               /\ data[r].has_attachment = toks[n - 1]
               /\ data[r].thread_id = toks[n]
    /\ (pc = "done" /\ content = HeaderLine \o RowsText(<<RowExample>>)) =>
           cleaned_emails = <<ExampleRecord>>

\* A row whose body holds a comma has been split, and the example row has been
\* loaded.
C3_Witness ==
    /\ pc = "done"
    /\ NumPairs = 2
    /\ PairId(1) = <<"1", "2">>
    /\ Len(TokensOf(1)) > 7
    /\ Len(data) = 2
    /\ cleaned_emails[2] = ExampleRecord

\* --------------------------------------------------------------- C4
\* The number of commas of a text.
Commas(s) == Cardinality({k \in 1..Len(s) : s[k] = COMMA})

\* The records, and the ids of the skipped rows, of pairs from..to.
RECURSIVE RecordsOfPairs(_, _)
RecordsOfPairs(from, to) ==
    IF from > to THEN <<>>
    ELSE LET r == ProcessRow(PairId(from), PairSegment(from))
         IN  (IF r.kind = "record" THEN <<RecordOf(r)>> ELSE <<>>)
             \o RecordsOfPairs(from + 1, to)

RECURSIVE SkippedIds(_, _)
SkippedIds(from, to) ==
    IF from > to THEN <<>>
    ELSE LET r == ProcessRow(PairId(from), PairSegment(from))
         IN  (IF r.kind = "record" THEN <<>> ELSE <<PairId(from)>>)
             \o SkippedIds(from + 1, to)

\* C4 (malformed row skip): a segment with fewer than three commas (the right
\* split finds fewer than 4 parts) gives no record and exactly one printed
\* line, naming its id; the loop goes on to every later segment, and data is
\* what the other segments give on their own, in order.
C4_MalformedRowSkip ==
    pc /= "split" =>
        /\ \A k \in 1..PairsDone :
             Commas(PrepareRow(PairSegment(k))) < 3 =>
                ProcessRow(PairId(k), PairSegment(k)).kind = "skip_right"
        /\ data = RecordsOfPairs(1, PairsDone)
        /\ IdsOf(SkipLines) = SkippedIds(1, PairsDone)
        /\ pc \in {"loaded", "done"} => PairsDone = NumPairs

\* A two-part row was skipped with one line, and the row after it gave its
\* record.
C4_Witness ==
    /\ pc = "loaded"
    /\ NumPairs = 2
    /\ Commas(PrepareRow(PairSegment(1))) = 1
    /\ SkipLines = <<[kind |-> "skip_right", email_id |-> PairId(1)]>>
    /\ Len(data) = 1
    /\ data[1].email_id = PairId(2)

\* --------------------------------------------------------------- C5
\* C5 (order preservation): the ids of the records built so far are a
\* subsequence of the ids captured at the boundaries passed so far, at most
\* one record per segment; load_emails_from_csv gets those records and keeps
\* a subsequence of them, at most one per record.
C5_OrderPreservation ==
    pc /= "split" =>
        /\ Len(data) <= PairsDone
        /\ IsSubseq(IdsOf(data), [k \in 1..PairsDone |-> PairId(k)])
        /\ pc \in {"loaded", "done"} =>
             /\ emails = data
             /\ Len(cleaned_emails) <= j
             /\ IsSubseq(IdsOf(cleaned_emails), IdsOf(SubSeq(emails, 1, j)))

\* Two rows with different ids both came through, in the order of the file.
C5_Witness ==
    /\ pc = "done"
    /\ NumPairs = 2
    /\ PairId(1) /= PairId(2)
    /\ IdsOf(cleaned_emails) = <<PairId(1), PairId(2)>>

\* --------------------------------------------------------------- C6
StringFields == Fields \ {"has_attachment"}

\* The value is absent, None, or blank once trimmed.
Blank(v) == v \in {Missing, NoneValue} \/ Strip(v) = <<>>

\* C6 (fully-populated record), as stated: every record clean_email_record
\* returns has the eight keys, none of them null, and each of the seven
\* string fields is a non-empty string.
C6_FullyPopulated ==
    (pc = "cleaned" /\ cleaned /= None) =>
        /\ DOMAIN cleaned = Fields
        /\ cleaned.has_attachment \in BOOLEAN
        /\ \A f \in StringFields : cleaned[f] \notin {<<>>, NoneValue, Missing}

\* What the code does keep: the eight keys, none null, and the five fields
\* that are not un-escaped after their default (email_id, sender_email,
\* sender_name, timestamp, thread_id) non-empty.
C6_KeysPresent ==
    (pc = "cleaned" /\ cleaned /= None) =>
        /\ DOMAIN cleaned = Fields
        /\ cleaned.has_attachment \in BOOLEAN
        /\ \A f \in StringFields : cleaned[f] \notin {NoneValue, Missing}
        /\ \A f \in StringFields \ {"subject", "body"} : cleaned[f] /= <<>>

\* A subject that is a literal backslash-n passes the default test and is
\* then blanked by the un-escaping.
C6_Witness ==
    /\ pc = "cleaned"
    /\ cleaned /= None
    /\ record.subject = <<BS, "n">>
    /\ cleaned.subject = <<>>

\* --------------------------------------------------------------- C7
\* The entries of a list that satisfy a test, in order.
Those(list, Test(_)) == SelectSeq(list, Test)

\* The record's email_id is missing, empty after trimming, or the header
\* token whatever its case.
HeaderLike(e) ==
    Blank(e.email_id) \/ Lower(Strip(e.email_id)) = TokEmailId

\* ... or the placeholder 'nan' whatever its case.
HeaderOrNan(e) ==
    HeaderLike(e) \/ Lower(Strip(e.email_id)) = TokNan

\* The record's email_id, as given, is the header token whatever its case.
UntrimmedHeader(e) ==
    e.email_id \notin {Missing, NoneValue} /\ Lower(e.email_id) = TokEmailId

\* The email_ids a result for input e may carry: 'unknown' for an empty
\* dict; else the id printed, or the id as given when the graph raised.
ResultIds(e) ==
    IF Falsy(e) THEN {StrUnknown}
    ELSE {StrOf(e.email_id, StrUnknown), GetOr(e.email_id, NoneValue)}

\* The trimmed email_ids of the records given.
TrimmedIds(list) == [n \in 1..Len(list) |-> Strip(list[n].email_id)]

\* C7 (header exclusion), as stated: a record whose email_id is missing,
\* empty after trimming or the header token is rejected by the validator and
\* appears neither in the output of load_emails_from_csv nor in that of
\* process_emails_batch (the error entry for an empty dict aside); every
\* other record is kept by the validator.
C7_HeaderExclusion ==
    pc = "returned" =>
        /\ IdsOf(cleaned_emails) =
             TrimmedIds(Those(emails, LAMBDA e : e /= None /\ ~HeaderLike(e)))
        /\ Len(results) =
             Len(Those(emails, LAMBDA e : e /= None /\ (Falsy(e) \/ ~HeaderLike(e))))

\* C7, as the code has it: the validator rejects exactly the records whose
\* email_id is missing, empty after trimming, or after trimming the header
\* token or 'nan' in any case, and load_emails_from_csv returns the others in
\* order; process_emails_batch drops only the None entries and the records
\* whose email_id as given (untrimmed) is the header token in any case, and
\* has one entry, in order, for every other record: also for one without
\* email_id, with an empty or blank one, or with a padded header token.
C7_HeaderExclusionAsCoded ==
    pc = "returned" =>
        LET kept == Those(emails, LAMBDA e : e /= None /\ ~UntrimmedHeader(e))
        IN  /\ IdsOf(cleaned_emails) =
                 TrimmedIds(Those(emails, LAMBDA e : e /= None /\ ~HeaderOrNan(e)))
            /\ Len(results) = Len(kept)
            /\ \A m \in 1..Len(kept) : results[m].email_id \in ResultIds(kept[m])

\* A record without email_id and one with a padded header token: the
\* validator kept neither, the batch has an entry for each.
C7_Witness ==
    /\ pc = "returned"
    /\ Len(emails) = 2
    /\ emails[1] /= None
    /\ emails[2] /= None
    /\ ~Falsy(emails[1])
    /\ emails[1].email_id = Missing
    /\ emails[2].email_id = <<SP>> \o TokEmailId \o <<SP>>
    /\ cleaned_emails = <<>>
    /\ Len(results) = 2
    /\ results[1].email_id = StrUnknown
    /\ results[2].email_id = <<SP>> \o TokEmailId \o <<SP>>

\* A header row and a row with the placeholder 'nan': the validator kept
\* neither, the batch dropped the header row only.
C7_WitnessHeader ==
    /\ pc = "returned"
    /\ Len(emails) = 2
    /\ emails[1] /= None
    /\ emails[2] /= None
    /\ emails[1].email_id = Upper(TokEmailId)
    /\ emails[2].email_id = TokNan
    /\ cleaned_emails = <<>>
    /\ Len(results) = 1
    /\ results[1].email_id = TokNan

\* --------------------------------------------------------------- C8
\* The source sender_email is missing, empty after trimming, or lacks '@'.
BadSenderEmail(v) == Blank(v) \/ ~Contains(v, <<AT>>)

\* C8 (sender_email default): in every returned record sender_email is
\* trimmed, lower-case and contains '@'; it is "unknown@domain.com" when the
\* source value is missing, empty after trimming or lacks '@', and the
\* trimmed lower-cased source value otherwise (so it is the default exactly
\* when the source is bad or is itself the default address).
C8_SenderEmailDefault ==
    (pc = "cleaned" /\ cleaned /= None) =>
        LET src == record.sender_email
            out == cleaned.sender_email
        IN  /\ out = Strip(out)
            /\ out = Lower(out)
            /\ Contains(out, <<AT>>)
            /\ BadSenderEmail(src) => out = UnknownEmail
            /\ ~BadSenderEmail(src) => out = Lower(Strip(src))
            /\ out = UnknownEmail <=>
                 (BadSenderEmail(src) \/ Lower(Strip(src)) = UnknownEmail)

\* A padded upper-case address came out trimmed and lower-case.
C8_Witness ==
    /\ pc = "cleaned"
    /\ cleaned /= None
    /\ record.sender_email = <<SP, "A", AT, "B", NL>>
    /\ cleaned.sender_email = <<"a", AT, "b">>

\* A source without '@' got the default.
C8_WitnessDefault ==
    /\ pc = "cleaned"
    /\ cleaned /= None
    /\ record.sender_email = <<"N", "a", "N">>
    /\ cleaned.sender_email = UnknownEmail

\* --------------------------------------------------------------- C9
\* The source timestamp is missing, empty after trimming, or a placeholder
\* (read without regard to case, as the code reads it).
PlaceholderTimestamp(v) ==
    Blank(v) \/ Lower(Strip(v)) \in {TokTimestamp, TokNan}

\* C9 (timestamp default): a record whose source timestamp is missing, empty
\* after trimming or a placeholder gets the clock reading in ISO-8601 form
\* followed by 'Z'; any other source timestamp comes out trimmed and
\* otherwise unchanged.
C9_TimestampDefault ==
    (pc = "cleaned" /\ cleaned /= None) =>
        LET src == record.timestamp
            out == cleaned.timestamp
        IN  /\ PlaceholderTimestamp(src) =>
                 /\ out = IsoFormat(clock) \o <<"Z">>
                 /\ out /= <<>>
                 /\ out[Len(out)] = "Z"
            /\ ~PlaceholderTimestamp(src) => out = Strip(src)

\* A record without timestamp was cleaned at clock reading 1.
C9_Witness ==
    /\ pc = "cleaned"
    /\ cleaned /= None
    /\ clock = 1
    /\ record.timestamp = Missing
    /\ cleaned.timestamp = IsoFormat(1) \o <<"Z">>

\* A padded timestamp came out trimmed, not reformatted.
C9_WitnessKept ==
    /\ pc = "cleaned"
    /\ cleaned /= None
    /\ record.timestamp = <<SP, "A", AT, "B", NL>>
    /\ cleaned.timestamp = <<"A", AT, "B">>

\* --------------------------------------------------------------- C10
\* The text after one pass and after two.
Normalized1 == body_runs[2]
Normalized2 == body_runs[3]

\* C10 (body normalizer idempotence), as stated: a second pass changes
\* nothing, and the output of one pass holds no doubled double-quote.
C10_Idempotence ==
    Len(body_runs) = MaxPasses + 1 =>
        /\ Normalized2 = Normalized1
        /\ ~Contains(Normalized1, <<QT, QT>>)

\* C10, as the code has it: for a raw text without a run of three or more
\* double-quotes a second pass changes nothing and one pass leaves no
\* doubled double-quote; for any raw text a second pass changes nothing
\* exactly when the output of the first holds no doubled double-quote and
\* does not both start and end with a double-quote.
C10_IdempotenceWithoutTripleQuotes ==
    Len(body_runs) = MaxPasses + 1 =>
        /\ ~Contains(body_runs[1], <<QT, QT, QT>>) =>
             /\ Normalized2 = Normalized1
             /\ ~Contains(Normalized1, <<QT, QT>>)
        /\ Normalized2 = Normalized1 <=>
             /\ ~Contains(Normalized1, <<QT, QT>>)
             /\ ~(StartsWith(Normalized1, <<QT>>) /\ EndsWith(Normalized1, <<QT>>))

\* A quoted text with doubled quotes inside lost both in one pass and
\* nothing more in the second.
C10_Witness ==
    /\ Len(body_runs) = MaxPasses + 1
    /\ body_runs[1] = <<QT, "a", QT, QT, QT>>
    /\ Normalized1 = <<"a", QT>>
    /\ Normalized2 = Normalized1

\* --------------------------------------------------------------- C11
\* The text holds a double-quote.
HasQuote(s) == Contains(s, <<QT>>)

\* The text both starts and ends with a double-quote.
OuterQuoted(s) == StartsWith(s, <<QT>>) /\ EndsWith(s, <<QT>>)

\* C11 (round trip on quoting), as stated: a body text with double-quotes,
\* written with each quote doubled and then normalized, comes back exactly,
\* also when it starts and ends with a quote or holds consecutive quotes.
C11_RoundTrip ==
    (pc = "read" /\ HasQuote(body_runs[1])) => body_runs[3] = body_runs[1]

\* What the code does give: the text comes back exactly when it does not
\* both start and end with a double-quote; one that does comes back without
\* its first and last character.
C11_RoundTripUnlessOuterQuoted ==
    pc = "read" =>
        LET B == body_runs[1]
        IN  /\ ~OuterQuoted(B) => body_runs[3] = B
            /\ OuterQuoted(B) => body_runs[3] = Slice(B, 2, Len(B) - 1)

\* The text "a" in quotes was written with four quotes and read back as a.
C11_Witness ==
    /\ pc = "read"
    /\ body_runs[1] = <<QT, "a", QT>>
    /\ body_runs[2] = <<QT, QT, "a", QT, QT>>
    /\ body_runs[3] = <<"a">>

\* --------------------------------------------------------------- C12
\* The loader has left the loop over the encodings.
AfterDecode == pc \notin {"decode"}

\* No encoding decoded the file.
NothingDecoded == AfterDecode /\ content = NoneValue

\* The encodings that decode the file.
Decoding == {n \in 1..Len(Encodings) : ReadDecode(uploaded_file, Encodings[n]).ok}

\* C12 (decode failure is fatal and distinguishable), as stated: the text is
\* that of the first encoding that decodes without error; if no encoding
\* decodes, the load ends in an error raised to the caller, with no output,
\* and never in a normal return.
C12_DecodeFailureFatal ==
    /\ (AfterDecode /\ content /= NoneValue) =>
          /\ Decoding /= {}
          /\ \A n \in Decoding : n >= enc + 1
          /\ content = ReadDecode(uploaded_file, Encodings[enc + 1]).text
    /\ NothingDecoded => (Decoding = {} /\ data = <<>> /\ pc = "raised")

\* What the code does: the first encoding that decodes gives the text; if
\* none decodes the loader prints a line and returns [], the value it also
\* returns for a file without rows.
C12_DecodeFailureReturnsEmpty ==
    /\ (AfterDecode /\ content /= NoneValue) =>
          /\ Decoding /= {}
          /\ \A n \in Decoding : n >= enc + 1
          /\ content = ReadDecode(uploaded_file, Encodings[enc + 1]).text
    /\ NothingDecoded =>
          /\ Decoding = {}
          /\ pc = "loaded"
          /\ emails = <<>>
          /\ diag = <<[kind |-> "decode_error", email_id |-> <<>>]>>

\* A file whose read raises: the three encodings were tried and the caller
\* got [] by a normal return.
C12_Witness ==
    /\ pc = "loaded"
    /\ ~uploaded_file.readable
    /\ enc = Len(Encodings)
    /\ content = NoneValue
    /\ emails = <<>>

\* A lone 0xE9 in the body: utf-8 failed, cp1252 gave the text.
C12_WitnessSecondEncoding ==
    /\ pc = "loaded"
    /\ uploaded_file.readable
    /\ enc = 1
    /\ Len(emails) = 1
    /\ emails[1].body = <<"U+00E9">>

\* --------------------------------------------------------------- C13
\* The value, trimmed and in upper case, is one of TRUE, YES, 1, T.
TrueWord(v) ==
    /\ v \notin {Missing, NoneValue}
    /\ \E w \in {<<"T", "R", "U", "E">>, <<"Y", "E", "S">>, <<"1">>, <<"T">>} :
         Upper(Strip(v)) = w

\* C13 (has_attachment): in the cleaned record has_attachment is a boolean,
\* true exactly when the source value, trimmed and compared without regard
\* to case, is one of TRUE, YES, 1, T, false for any other value and for a
\* missing one; cleaning the cleaned record again keeps the boolean.
C13_HasAttachment ==
    /\ (pc = "cleaned" /\ cleaned /= None) =>
          /\ cleaned.has_attachment \in BOOLEAN
          /\ cleaned.has_attachment <=> TrueWord(record.has_attachment)
    /\ (pc = "recleaned" /\ cleaned /= None) =>
          /\ cleaned.has_attachment \in BOOLEAN
          /\ cleaned.has_attachment <=> record.has_attachment

\* A padded lower-case yes was read as true, and stayed true when the record
\* was cleaned again.
C13_Witness ==
    /\ pc = "recleaned"
    /\ cleaned /= None
    /\ record.has_attachment = TRUE
    /\ cleaned.has_attachment = TRUE

\* A padded lower-case yes was read as true.
C13_WitnessPadded ==
    /\ pc = "cleaned"
    /\ cleaned /= None
    /\ record.has_attachment = <<SP, "y", "e", "s", NL>>
    /\ cleaned.has_attachment = TRUE

\* --------------------------------------------------------------- C14
\* The source subject is missing, blank, or a placeholder in any case.
PlaceholderSubject(v) ==
    Blank(v) \/ Lower(Strip(v)) \in {TokSubject, TokNan}

\* How many newlines a text holds, and how many runs of newlines.
NewlineCount(s) == Cardinality({n \in 1..Len(s) : s[n] = NL})
NewlineRuns(s) ==
    Cardinality({n \in 1..Len(s) : s[n] = NL /\ (n = 1 \/ s[n - 1] /= NL)})

\* The text without its newlines and spaces.
Letters(s) == SelectSeq(s, LAMBDA c : c \notin {NL, SP})

\* The first n characters of a text.
Prefix(s, n) == SubSeq(s, 1, IF Len(s) < n THEN Len(s) ELSE n)

\* C14 (subject sanitization): the subject of a returned record has at most
\* 200 characters and no newline; it is "No Subject" when the source subject
\* is missing, blank or a placeholder; a source that holds no escape
\* sequence comes out trimmed, each run of newlines turned into one space,
\* cut at 200 characters.
C14_SubjectSanitized ==
    (pc = "cleaned" /\ cleaned /= None) =>
        LET src == record.subject
            out == cleaned.subject
        IN  /\ Len(out) <= SubjectCap
            /\ \A n \in 1..Len(out) : out[n] /= NL
            /\ PlaceholderSubject(src) => out = NoSubject
            /\ (~PlaceholderSubject(src) /\ ~Contains(src, <<BS, "n">>)
                /\ ~Contains(src, <<QT, QT>>)) =>
                  LET t == Strip(src)
                      full == Len(t) - NewlineCount(t) + NewlineRuns(t)
                  IN  /\ Len(out) = IF full < SubjectCap THEN full ELSE SubjectCap
                      /\ Letters(out) = Letters(Prefix(t, Len(out) + NewlineCount(t)
                                                          - NewlineRuns(t)))
                         \/ full > SubjectCap

\* A subject of 203 characters with a newline came out with 200 and a space.
C14_Witness ==
    /\ pc = "cleaned"
    /\ cleaned /= None
    /\ record.subject = LongSubject
    /\ Len(cleaned.subject) = SubjectCap
    /\ cleaned.subject[2] = SP

\* Two newlines in a row became one space.
C14_WitnessRun ==
    /\ pc = "cleaned"
    /\ cleaned /= None
    /\ record.subject = <<"x", NL, NL, QT, QT, "y">>
    /\ cleaned.subject = <<"x", SP, QT, "y">>

\* --------------------------------------------------------------- C15
\* The inputs the loop of process_emails_batch has been through.
Visited == SubSeq(emails, 1, batch_i)

\* The inputs that are neither None nor a header row (email_id, as given,
\* the header token in any case, as the code compares it).
Entitled(list) == Those(list, LAMBDA e : e /= None /\ ~UntrimmedHeader(e))

\* process_email raises for this input: the cache is consulted and the
\* cache key of its email_id cannot be encoded.
Raises(e) == ~Falsy(e) /\ use_cache /\ CacheKeyRaises(StrOf(e.email_id, StrUnknown))

\* r is the error entry for input e: the fields of e, processing_status
\* 'error' and the message of the exception.
IsErrorEntryOf(r, e) ==
    /\ DOMAIN r = {f \in Fields : e[f] /= Missing} \cup {"processing_status", "error_message"}
    /\ \A f \in Fields : e[f] /= Missing => r[f] = e[f]
    /\ r.processing_status = StatusError
    /\ r.error_message = MsgEncode

\* C15 (process_emails_batch): during the loop and at the return the list of
\* results has no None entry and has, in input order, exactly one entry for
\* each input gone through that is neither None nor a header row; an input
\* for which process_email raises has the error entry (its own fields,
\* processing_status 'error', the message), and the inputs after it have
\* their entries as well.
C15_BatchEntries ==
    pc \in {"batch", "returned"} =>
        LET kept == Entitled(Visited)
        IN  /\ \A m \in 1..Len(results) : results[m] /= None
            /\ Len(results) = Len(kept)
            /\ \A m \in 1..Len(kept) :
                  /\ Raises(kept[m]) => IsErrorEntryOf(results[m], kept[m])
                  /\ "email_id" \in DOMAIN results[m]
                  /\ results[m].email_id \in ResultIds(kept[m])
                  /\ ~Raises(kept[m]) => "category" \in DOMAIN results[m]
                                          \/ results[m] = InvalidResult

\* process_email raised for the first of two emails: the batch returned its
\* error entry and, after it, the completed result of the second.
C15_Witness ==
    /\ pc = "returned"
    /\ use_cache
    /\ Len(emails) = 2
    /\ emails[1] /= None
    /\ emails[2] /= None
    /\ emails[1].email_id = <<"9", SURR>>
    /\ emails[2].email_id = <<"7">>
    /\ Len(results) = 2
    /\ IsErrorEntryOf(results[1], emails[1])
    /\ results[2].email_id = <<"7">>
    /\ results[2].processing_status = StatusCompleted

\* A None and a header row around a processed email: one entry.
C15_WitnessSkipped ==
    /\ pc = "returned"
    /\ Len(emails) = 2
    /\ emails[1] = None
    /\ emails[2] /= None
    /\ emails[2].email_id = <<"8">>
    /\ Len(results) = 1
    /\ results[1].email_id = <<"8">>

\* --------------------------------------------------------------- C16
\* The body is None or the empty str.
NoBody(b) == b = NoneValue \/ b = <<>>

\* The whitespace-collapsed body: the words of its text joined by one space.
Collapsed(b) == JoinSpaces(SplitWords(IF b = Number THEN StrNumber ELSE b))

\* The rule of the cut: the first max_length characters and "..." when the
\* collapsed body is longer than max_length, the collapsed body otherwise.
CutRule(b, m, out) ==
    IF Len(Collapsed(b)) > m
    THEN out = Slice(Collapsed(b), 1, m) \o Ellipsis
    ELSE out = Collapsed(b)

C16_WitnessCollapsed ==
    /\ pc = "preview"
    /\ args.body = <<SP, "a", NL, SP, "a">>
    /\ args.max_length = MaxPreview
    /\ ret = <<"a", SP, "a">>

\* --------------------------------------------------------------- C17
\* Where the words of a name start: a character that is no whitespace, at
\* the start of the name or after whitespace.
WordStarts(n) ==
    {p \in 1..Len(n) : n[p] \notin Whitespace /\ (p = 1 \/ n[p - 1] \in Whitespace)}

\* C17 (get_sender_initials): a name of two or more words gives the first
\* character of the first word and the first character of the last word,
\* upper-cased; a name of one word gives its first character upper-cased; an
\* empty, None or whitespace-only name gives "??"; every call returns
\* (a value that is no str gives "??" as well).
C17_Initials ==
    pc = "initials" =>
        LET n == args.sender_name
        IN  /\ ret /= NoneValue
            /\ n \in {NoneValue, Number} => ret = Initials2
            /\ n \notin {NoneValue, Number} =>
                  LET starts == WordStarts(n)
                      first == CHOOSE p \in starts : \A q \in starts : p <= q
                      last == CHOOSE p \in starts : \A q \in starts : q <= p
                  IN  /\ starts = {} => ret = Initials2
                      /\ Cardinality(starts) = 1 => ret = <<UpperChar(n[first])>>
                      /\ Cardinality(starts) >= 2 =>
                            ret = <<UpperChar(n[first]), UpperChar(n[last])>>

\* A name of three words: the initials of the first and the last.
C17_Witness ==
    /\ pc = "initials"
    /\ args.sender_name = <<"j", TAB, "j", SP, "S">>
    /\ ret = <<"J", "S">>

\* A name of whitespace only.
C17_WitnessBlank ==
    /\ pc = "initials"
    /\ args.sender_name = <<SP, TAB>>
    /\ ret = Initials2

\* --------------------------------------------------------------- C18
\* The commas of the prepared segment of pair k.
PairCommas(k) == Commas(PrepareRow(PairSegment(k)))

\* The ids of the pairs from..to whose prepared segment has lo..hi commas.
RECURSIVE PairIdsWith(_, _, _, _)
PairIdsWith(from, to, lo, hi) ==
    IF from > to THEN <<>>
    ELSE (IF PairCommas(from) \in lo..hi THEN <<PairId(from)>> ELSE <<>>)
         \o PairIdsWith(from + 1, to, lo, hi)

\* The lines printed for rows that failed the left split.
LeftSkipLines == SelectSeq(diag, LAMBDA d : d.kind = "skip_left")

\* C18 (six commas): of the segments the loop has passed, exactly those
\* whose prepared text (trimmed, trailing quote removed) has six or more
\* commas have a record in data; those with three to five commas have
\* passed the right split, failed the left split and have one printed line
\* of the left split each, and no record; those with fewer have one line of
\* the right split each.
C18_SixCommas ==
    pc /= "split" =>
        /\ IdsOf(data) = PairIdsWith(1, PairsDone, 6, Len(content))
        /\ IdsOf(LeftSkipLines) = PairIdsWith(1, PairsDone, 3, 5)
        /\ IdsOf(SkipLines) = PairIdsWith(1, PairsDone, 0, 5)
        /\ \A k \in 1..PairsDone :
              PairCommas(k) \in 3..5 =>
                 /\ Len(SplitRight(PrepareRow(PairSegment(k)), 3)) = 4
                 /\ Len(SplitLeft(SplitRight(PrepareRow(PairSegment(k)), 3)[1], 3)) < 4

\* A row with five commas was skipped at the left split, the row with six
\* after it gave a record.
C18_Witness ==
    /\ pc = "loaded"
    /\ NumPairs = 2
    /\ PairCommas(1) = 5
    /\ PairCommas(2) = 6
    /\ diag[1] = [kind |-> "skip_left", email_id |-> PairId(1)]
    /\ Len(SkipLines) = 1
    /\ IdsOf(data) = <<PairId(2)>>

\* A segment with two commas and two with three: a line of the right split,
\* then two of the left split.
C18_WitnessThree ==
    /\ pc = "loaded"
    /\ NumPairs = 3
    /\ PairCommas(1) = 2
    /\ PairCommas(2) = 3
    /\ PairCommas(3) = 3
    /\ IdsOf(SkipLines) = <<PairId(1), PairId(2), PairId(3)>>
    /\ IdsOf(LeftSkipLines) = <<PairId(2), PairId(3)>>
    /\ data = <<>>

\* --------------------------------------------------------------- C19
\* The documents with the logical rows they were written from.
LogicalDocuments ==
    {[text |-> h \o RowsText(rows), rows |-> rows] :
        h \in Headers, rows \in BoundedSeq(RowPool, MaxRows)}

\* The row holds the boundary pattern inside (in its body).
Ambiguous(row) == Len(Boundaries(row.tail)) > 0

\* The three trailing columns of a logical row, as written.
TrailingColumns(row) ==
    LET toks == SplitAll(PrepareRow(row.tail))
    IN  JoinCommas(toks, Len(toks) - 2, Len(toks))

\* C19 (boundary ambiguity): every occurrence of newline + quote + digits +
\* comma starts a segment, so a document written from logical rows has one
\* segment per row and one more for each row whose body holds the pattern;
\* such a row is split in two: the first segment carries the row's id and
\* ends where the pattern starts, without the row's trailing columns, which
\* are at the end of the second segment, whose id is the digits in the body.
C19_BoundaryAmbiguity ==
    (pc = "loaded" /\ j = 0) =>
        \A d \in LogicalDocuments :
           d.text = content =>
              LET rows == d.rows
                  amb == {k \in 1..Len(rows) : Ambiguous(rows[k])}
              IN  /\ NumPairs = Len(Boundaries(content))
                  /\ NumPairs = Len(rows) + Cardinality(amb)
                  /\ amb /= {} => NumPairs > Len(rows)
                  /\ \A k \in amb :
                        LET at == k + Cardinality({m \in amb : m < k})
                            tail == rows[k].tail
                            b == Boundaries(tail)[1]
                        IN  /\ PairId(at) = rows[k].id
                            /\ PairSegment(at) = Slice(tail, 1, b[1] - 1)
                            /\ PairId(at + 1) = CapturedAt(tail, b)
                            /\ PairSegment(at + 1) = Slice(tail, b[2] + 2, Len(tail))
                            /\ ~EndsWith(PrepareRow(PairSegment(at)), TrailingColumns(rows[k]))
                            /\ EndsWith(PrepareRow(PairSegment(at + 1)), TrailingColumns(rows[k]))

\* One logical row with the pattern in its body: two segments, the second
\* with the id found in the body, and no record of the row.
C19_Witness ==
    /\ pc = "loaded"
    /\ j = 0
    /\ content = HeaderLine \o RowsText(<<RowAmbiguous>>)
    /\ NumPairs = 2
    /\ PairId(1) = <<"7">>
    /\ PairId(2) = <<"8">>
    /\ PairSegment(1) = <<"i", AT, "j", COMMA, "D", "i", COMMA, "F", "w", COMMA, "x">>
    /\ data = <<>>

\* --------------------------------------------------------------- C20
\* The double-quotes of a text.
Quotes(s) == Cardinality({k \in 1..Len(s) : s[k] = QT})

\* The text has no whitespace at either end.
Trimmed(s) == s = <<>> \/ (s[1] \notin Whitespace /\ s[Len(s)] \notin Whitespace)

\* C20 (segment preparation): for every segment the loop has passed, the
\* prepared segment is the segment without its surrounding whitespace and
\* without one trailing double-quote when there is one, never more than
\* one, and it has no whitespace or newline at either end.
C20_SegmentPreparation ==
    \A k \in 1..PairsDone :
       LET seg == PairSegment(k)
           prepared == PrepareRow(seg)
       IN  /\ Quotes(prepared) = Quotes(seg) - (IF EndsWith(Strip(seg), <<QT>>) THEN 1 ELSE 0)
           /\ Trimmed(prepared)

\* What the code does: the segment is trimmed, then one trailing
\* double-quote is removed; whitespace that stood before that quote stays.
C20_TrimThenUnquote ==
    \A k \in 1..PairsDone :
       LET seg == PairSegment(k)
           prepared == PrepareRow(seg)
           t == Strip(seg)
       IN  /\ EndsWith(t, <<QT>>) => prepared = Slice(t, 1, Len(t) - 1)
           /\ ~EndsWith(t, <<QT>>) => prepared = t
           /\ Trimmed(prepared) \/ EndsWith(t, <<QT>>)

\* The row with whitespace before its closing quote was loaded: its
\* thread_id ends with a space and a newline.
C20_Witness ==
    /\ pc = "loaded"
    /\ NumPairs = 1
    /\ PairSegment(1) = RowPadded.tail
    /\ Len(data) = 1
    /\ data[1].thread_id = <<"t", "7", SP, NL>>

\* The row closed by two quotes: one of them is left.
C20_WitnessTwoQuotes ==
    /\ pc = "loaded"
    /\ NumPairs = 1
    /\ PairSegment(1) = RowSixParts.tail
    /\ EndsWith(PrepareRow(PairSegment(1)), <<"f", QT>>)

\* --------------------------------------------------------------- C21
\* The characters of a text that are not whitespace, in order.
NonWhitespace(s) == SelectSeq(s, LAMBDA c : c \notin Whitespace)

\* The number of double-quote characters of a text.
QuoteCount(s) == Len(SelectSeq(s, LAMBDA c : c = QT))

\* The body the loader hands over is neither blank nor a placeholder.
RealBody(b) ==
    /\ Strip(b) /= <<>>
    /\ Lower(Strip(b)) \notin {TokBody, TokNan}

\* The non-blank lines of a text, each trimmed, joined by single newlines.
TrimmedLines(s) == JoinLines(StrippedNonBlank(SplitLines(s)))

\* The records the loader returned that load_emails_from_csv has cleaned.
CleanedSoFar == IF pc \in {"loaded", "done"} THEN 1..Len(cleaned_emails) ELSE {}

\* C21 (body sanitization changes whitespace only), as stated: for a body
\* that came out of the body normalizer and is neither blank nor a
\* placeholder, the cleaned body is the body's non-blank lines, trimmed and
\* joined by single newlines; its non-whitespace characters are those of the
\* normalized body, and it has as many double-quotes.
C21_WhitespaceOnly ==
    \A k \in CleanedSoFar :
        Len(cleaned_emails) <= Len(emails) /\ RealBody(emails[k].body) =>
            /\ cleaned_emails[k].email_id = emails[k].email_id
            /\ cleaned_emails[k].body = TrimmedLines(emails[k].body)
            /\ NonWhitespace(cleaned_emails[k].body) = NonWhitespace(emails[k].body)
            /\ QuoteCount(cleaned_emails[k].body) = QuoteCount(emails[k].body)

\* What the code does instead: the lines are those of the body after each
\* backslash-n has become a newline and each doubled double-quote a single
\* one; a body with neither is changed in its whitespace only.
C21_UnescapedThenTrimmed ==
    \A k \in CleanedSoFar :
        RealBody(emails[k].body) =>
            LET b == emails[k].body
                u == ReplaceAll(ReplaceAll(b, <<BS, "n">>, <<NL>>), <<QT, QT>>, <<QT>>)
            IN  /\ cleaned_emails[k].body = TrimmedLines(u)
                /\ ~Contains(b, <<BS, "n">>) /\ ~Contains(b, <<QT, QT>>) =>
                     /\ cleaned_emails[k].body = TrimmedLines(b)
                     /\ NonWhitespace(cleaned_emails[k].body) = NonWhitespace(b)

\* The normalized body p""q\nr (two quotes, a backslash and an n) is
\* returned as the two lines p"q and r.
C21_Witness ==
    /\ pc = "done"
    /\ Len(emails) = 1
    /\ Len(cleaned_emails) = 1
    /\ emails[1].body = <<"p", QT, QT, "q", BS, "n", "r">>
    /\ cleaned_emails[1].body = <<"p", QT, "q", NL, "r">>

\* A multi-line body with neither is returned with its lines unchanged.
C21_WitnessPlain ==
    /\ pc = "done"
    /\ Len(emails) = 1
    /\ cleaned_emails[1].body = <<"l", "i", "n", "e", "1", NL, "l", "i", "n", "e", "2">>
    /\ cleaned_emails[1].body = emails[1].body

\* --------------------------------------------------------------- C22
\* The pairs from..to that give a record, in order.
RECURSIVE YieldingPairs(_, _)
YieldingPairs(from, to) ==
    IF from > to THEN <<>>
    ELSE (IF ProcessRow(PairId(from), PairSegment(from)).kind = "record"
          THEN <<from>> ELSE <<>>)
         \o YieldingPairs(from + 1, to)

\* Extraction plus validation of one row, run on its own at the time now.
RowRecord(id, segment, now) ==
    clean_email_record(RecordOf(ProcessRow(id, segment)), now)

\* The pair the k-th cleaned record came from.
PairOfCleaned(k) == YieldingPairs(1, NumPairs)[k]

\* C22 (per-row purity), as stated: the record of a row is what extraction
\* plus validation give for that row's id and segment alone, whenever they
\* are run: the same at any two times, whatever rows stand before or after.
C22_PerRowPurity ==
    pc \in {"loaded", "done"} =>
        \A k \in 1..Len(cleaned_emails) : \A now \in Clock :
            cleaned_emails[k] = RowRecord(PairId(PairOfCleaned(k)),
                                          PairSegment(PairOfCleaned(k)), now)

\* The records to look at: the one load_emails_from_csv has just appended,
\* and all of them at its return.
JustCleaned ==
    IF pc = "done" THEN 1..Len(cleaned_emails)
    ELSE {Len(cleaned_emails)} \ {0}

\* C22, as the code has it: the record of a row (looked at when it is
\* appended, and again at the return) is what extraction plus validation
\* give for that row's id and segment alone at some time; the time matters
\* only for a row whose timestamp column is blank or a placeholder, and then
\* only for the timestamp field; the loader's record never depends on the
\* time.
C22_PureButForClock ==
    pc \in {"loaded", "done"} =>
        /\ Len(cleaned_emails) = j
        /\ LET yielding == YieldingPairs(1, NumPairs)
           IN  \A k \in JustCleaned :
                 LET id == PairId(yielding[k])
                     segment == PairSegment(yielding[k])
                     extracted == RecordOf(ProcessRow(id, segment))
                     alone == [now \in Clock |-> clean_email_record(extracted, now)]
                 IN  /\ emails[k] = extracted
                     /\ \E now \in Clock : cleaned_emails[k] = alone[now]
                     /\ \A now \in Clock :
                          \/ cleaned_emails[k] = alone[now]
                          \/ /\ ReadsClock(emails[k])
                             /\ cleaned_emails[k] =
                                  [alone[now] EXCEPT
                                     !.timestamp = cleaned_emails[k].timestamp]

\* The same row stands twice in the file, with a timestamp of its own: its
\* two records are the same.
C22_Witness ==
    /\ pc = "done"
    /\ NumPairs = 2
    /\ PairSegment(1) = PairSegment(2)
    /\ PairId(1) = PairId(2)
    /\ Len(cleaned_emails) = 2
    /\ ~ReadsClock(emails[1])
    /\ cleaned_emails[1] = cleaned_emails[2]

\* The same row with an empty timestamp column stands twice in the file and
\* was validated at two times: its two records differ in the timestamp.
C22_WitnessClock ==
    /\ pc = "done"
    /\ NumPairs = 2
    /\ PairId(1) = PairId(2)
    /\ Len(cleaned_emails) = 2
    /\ emails[1] = emails[2]
    /\ ReadsClock(emails[1])
    /\ cleaned_emails[1].timestamp /= cleaned_emails[2].timestamp
    /\ cleaned_emails[1] = [cleaned_emails[2] EXCEPT !.timestamp = cleaned_emails[1].timestamp]

\* --------------------------------------------------------------- C23
\* The calls so far that ran the stages for the id X and stored the result.
StoredCalls(X) ==
    {m \in 1..Len(diag) :
        diag[m].kind = "processing" /\ diag[m].email_id = X /\ ~CacheKeyRaises(X)}

\* The last of them.
LastStored(X) == CHOOSE m \in StoredCalls(X) : \A n \in StoredCalls(X) : n <= m

\* The step is a call with use_cache = True whose id had a result stored
\* by an earlier call.
CallOnStored ==
    /\ Len(results') = Len(results) + 1
    /\ args'.use_cache
    /\ ~Falsy(args'.email_data)
    /\ StoredCalls(StrOf(args'.email_data.email_id, StrUnknown)) /= {}

\* C23 (cache hit), as stated: once a call has processed a record with the
\* id X and stored its result, every later call with use_cache = True and the
\* id X returns that stored result, whatever its other fields, and the
\* stages are not run.
C23_CacheHit ==
    [][CallOnStored =>
         LET X == StrOf(args'.email_data.email_id, StrUnknown)
         IN  /\ diag'[Len(diag')] = [kind |-> "cached", email_id |-> X]
             /\ \A m \in StoredCalls(X) : results'[Len(results')] = results[m]]_vars

\* C23, as the code has it: such a call returns the result stored last for
\* X (a call with use_cache = False runs the stages again and replaces what
\* was stored), the stages are not run, and the call changes neither the
\* cache, nor processed_emails, nor the caller's dict.
C23_CacheHitLatest ==
    [][CallOnStored =>
         LET X == StrOf(args'.email_data.email_id, StrUnknown)
         IN  /\ diag'[Len(diag')] = [kind |-> "cached", email_id |-> X]
             /\ results'[Len(results')] = results[LastStored(X)]
             /\ args'.email_data \in CallPool
             /\ cache' = cache
             /\ processed_emails' = processed_emails]_vars

\* A record was processed and ended in "error"; a later call with the same
\* id, another subject and no body was answered from the cache with the
\* stored result.
C23_Witness ==
    /\ Len(results) = 2
    /\ diag[1] = [kind |-> "processing", email_id |-> <<"7">>]
    /\ diag[2] = [kind |-> "cached", email_id |-> <<"7">>]
    /\ results[1].processing_status = StatusError
    /\ results[1].subject = <<"S">>
    /\ args.use_cache
    /\ args.email_data.subject = <<"X">>
    /\ args.email_data.body = Missing
    /\ results[2] = results[1]

\* The id was processed twice, the second time without the cache and with
\* another outcome; the third call is answered with the second result.
C23_WitnessReplaced ==
    /\ Len(results) = 3
    /\ diag[1].kind = "processing"
    /\ diag[2] = [kind |-> "processing", email_id |-> diag[1].email_id]
    /\ diag[3] = [kind |-> "cached", email_id |-> diag[1].email_id]
    /\ results[1] /= results[2]
    /\ results[3] = results[2]

\* --------------------------------------------------------------- C24
\* The order of the nodes in the graph.
StageOrder == <<"classify", "prioritize", "architect">>

\* The kinds of the lines logged so far.
Logged == {diag[n].kind : n \in 1..Len(diag)}

\* The graph raised: the run ended in the except branch of process_email.
GraphHasRaised == "graph_error" \in Logged

\* How far a processing_status is: pending, then processing, then the two
\* final values.
StatusRank(status) ==
    IF status = StatusPending THEN 0 ELSE IF status = StatusProcessing THEN 1 ELSE 2

StagesInOrder ==
    /\ stages = SubSeq(StageOrder, 1, Len(stages))
    /\ pc = "classify" => stages = <<>> /\ state.processing_status = StatusPending
    /\ pc = "prioritize" =>
          stages = <<"classify">> /\ state.processing_status = StatusProcessing
    /\ pc = "architect" =>
          stages = <<"classify", "prioritize">> /\ state.processing_status = StatusProcessing
    /\ pc = "returned" =>
          /\ state.processing_status \in {StatusCompleted, StatusError}
          /\ stages = StageOrder <=> ~GraphHasRaised
          /\ GraphHasRaised => state.processing_status = StatusError
    /\ pc = "raised" => GraphHasRaised /\ Len(stages) < 3

\* The status never goes back.
StatusMovesOn ==
    pc \notin {"idle"} /\ pc' \notin {"idle", "raised"} =>
        StatusRank(state'.processing_status) >= StatusRank(state.processing_status)

C24_WitnessRaised ==
    /\ pc = "returned"
    /\ stages = <<"classify">>
    /\ GraphHasRaised
    /\ state.processing_status = StatusError

\* --------------------------------------------------------------- C25
\* The answer of the language model names a member of the list.
NamesMember(r, members) == r.kind = "object" /\ r.value \in members

\* The stage that ran last failed (its except branch ran).
LastStageFailed == diag[Len(diag) - (IF pc = "returned" THEN 1 ELSE 0)].kind
                      \in {"classify_error", "prioritize_error", "architect_error"}

\* C25 (annotation validity): after classify the category is a member of
\* EMAIL_CATEGORIES: the one the model named, or "Personal" when it named
\* none of them or the stage failed; after prioritize the priority is a key
\* of PRIORITY_LEVELS, with the fallback "Medium"; after the architect the
\* action is a member of RECOMMENDED_ACTIONS, "Archive" when the model named
\* none and "Flag for Review" when the stage failed; when the three stages
\* have run all three hold. (A run the graph raised in has lost what its
\* stages had set.)
C25_AnnotationValidity ==
    ~GraphHasRaised =>
    /\ Len(stages) >= 1 =>
          /\ state.category \in EMAIL_CATEGORIES
          /\ pc = "prioritize" =>
                state.category =
                    IF LastStageFailed \/ ~NamesMember(args.response, EMAIL_CATEGORIES)
                    THEN CategoryPersonal ELSE args.response.value
    /\ Len(stages) >= 2 =>
          /\ state.priority \in PRIORITY_LEVELS
          /\ pc = "architect" =>
                state.priority =
                    IF LastStageFailed \/ ~NamesMember(args.response, PRIORITY_LEVELS)
                    THEN PriorityMedium ELSE args.response.value
    /\ Len(stages) = 3 =>
          /\ state.action_recommendation \in RECOMMENDED_ACTIONS
          /\ state.action_recommendation =
                IF LastStageFailed THEN ActionFlag
                ELSE IF ~NamesMember(args.response, RECOMMENDED_ACTIONS) THEN ActionArchive
                ELSE args.response.value

\* The model named no category and no priority of the lists and the
\* architect's answer was no JSON: Personal, Medium, Flag for Review.
C25_Witness ==
    /\ pc = "returned"
    /\ stages = StageOrder
    /\ args.response.kind = "not_json"
    /\ state.category = CategoryPersonal
    /\ state.priority = PriorityMedium
    /\ state.action_recommendation = ActionFlag
    /\ Logged = {"classify", "prioritize", "architect_error", "processed"}

\* The architect's answer named an action outside the list: Archive.
C25_WitnessUnknownAction ==
    /\ pc = "returned"
    /\ stages = StageOrder
    /\ args.response.kind = "object"
    /\ args.response.value = Lower(CategoryWork)
    /\ state.action_recommendation = ActionArchive
    /\ state.category = CategoryMeeting
    /\ state.priority = PriorityCritical

C28_WitnessArchitect ==
    /\ pc = "returned"
    /\ Logged = {"classify", "prioritize", "architect_error", "processed"}
    /\ state.processing_status = StatusError
    /\ state.error_message = MsgFailure

\* --------------------------------------------------------------- C26
\* The six fields a row gives that are cut off at commas.
ScalarFields == {"sender_email", "sender_name", "subject", "timestamp",
                 "has_attachment", "thread_id"}

\* The three leading columns of a record, each followed by a comma, and the
\* three trailing ones, each after a comma.
LeadingColumns(d) ==
    d.sender_email \o <<COMMA>> \o d.sender_name \o <<COMMA>> \o d.subject \o <<COMMA>>
TrailingOf(d) ==
    <<COMMA>> \o d.timestamp \o <<COMMA>> \o d.has_attachment \o <<COMMA>> \o d.thread_id

\* What of the prepared segment lies between the two.
BodyRawOf(prepared, d) ==
    Slice(prepared, Len(LeadingColumns(d)) + 1, Len(prepared) - Len(TrailingOf(d)))

\* C26 (split reassembly): for every record the loader returns, the three leading
\* columns, the raw body and the three trailing columns, joined by commas,
\* are the prepared segment of its row, character for character; the body of
\* the record is the normalizer's output for that raw body; none of the six
\* scalar fields holds a comma.
C26_SplitReassembly ==
    (pc = "loaded" /\ j = 0) =>
        LET yielding == YieldingPairs(1, PairsDone)
        IN  \A k \in 1..Len(data) :
              LET prepared == PrepareRow(PairSegment(yielding[k]))
                  d == data[k]
                  body_raw == BodyRawOf(prepared, d)
              IN  /\ Len(LeadingColumns(d)) + Len(TrailingOf(d)) <= Len(prepared)
                  /\ prepared = LeadingColumns(d) \o body_raw \o TrailingOf(d)
                  /\ d.body = NormalizeBody(body_raw)
                  /\ \A f \in ScalarFields : ~Contains(d[f], <<COMMA>>)

\* A row whose body holds two commas gave a record: the raw body is what
\* lies between the third comma and the third comma from the end.
C26_Witness ==
    /\ pc = "loaded"
    /\ Len(data) = 1
    /\ NumPairs = 1
    /\ Commas(PrepareRow(PairSegment(1))) = 8
    /\ Commas(BodyRawOf(PrepareRow(PairSegment(1)), data[1])) = 2
    /\ data[1].timestamp = <<"T", "2">>

\* A row with empty first and fifth columns gave a record.
C26_WitnessEmptyColumns ==
    /\ pc = "loaded"
    /\ Len(data) = 1
    /\ NumPairs = 1
    /\ data[1].sender_email = <<>>
    /\ data[1].timestamp = <<>>
    /\ BodyRawOf(PrepareRow(PairSegment(1)), data[1]) = <<"b", SP>>

\* --------------------------------------------------------------- C27
\* A non-empty text of decimal digits.
DigitString(t) == t /= <<>> /\ \A k \in 1..Len(t) : t[k] \in Digits

\* The digits captured at the boundary b (a start and an end) of the text
\* the loader split.
CapturedOfPair(b) == CapturedAt(content, b)

\* C27 (loader-to-validator agreement): every record the loader has
\* appended has a non-empty digit string as email_id, and in what it returns
\* it is the one captured at the boundary of the record's row; the validator
\* rejects none of the records the loader returns, at any time; what
\* load_emails_from_csv has cleaned so far is one record per loader record
\* passed, with the same email_ids in the same order, and at its return as
\* many records as the loader returned.
C27_LoaderValidatorAgreement ==
    pc \in {"rows", "loaded", "done"} =>
        /\ \A k \in 1..Len(data) : DigitString(data[k].email_id)
        /\ (pc = "loaded" /\ j = 0) =>
             LET yielding == YieldingPairs(1, NumPairs)
                 boundaries == Boundaries(content)
             IN  \A k \in 1..Len(data) :
                   /\ data[k].email_id = CapturedOfPair(boundaries[yielding[k]])
                   /\ \A now \in Clock : clean_email_record(data[k], now) /= None
        /\ pc \in {"loaded", "done"} =>
             /\ emails = data
             /\ Len(cleaned_emails) = j
             /\ IdsOf(cleaned_emails) = IdsOf(SubSeq(emails, 1, j))
        /\ pc = "done" =>
             /\ Len(cleaned_emails) = Len(data)
             /\ IdsOf(cleaned_emails) = IdsOf(data)

\* Two rows with different ids, one of two digits, were loaded and cleaned.
C27_Witness ==
    /\ pc = "done"
    /\ Len(data) = 2
    /\ Len(data[1].email_id) = 2
    /\ data[1].email_id /= data[2].email_id
    /\ IdsOf(cleaned_emails) = IdsOf(data)

\* A file of two rows of which the first gives no record: the id of the
\* second is the one returned.
C27_WitnessSkipped ==
    /\ pc = "done"
    /\ NumPairs = 2
    /\ YieldingPairs(1, NumPairs) = <<2>>
    /\ IdsOf(cleaned_emails) = <<PairId(2)>>

\* --------------------------------------------------------------- C29
\* A record the "Add Email" button made.
IsManual(e) == StartsWith(e.email_id, ManualIdPrefix)

\* What a step of the app does to processed_data.
UploadGated ==
    /\ (pc' /= "add" /\ processed_data /= <<>>) => processed_data' = processed_data
    /\ (pc' /= "add" /\ processed_data = <<>> /\ processed_data' /= <<>>) =>
          /\ uploaded_file' /= NoFile
          /\ IdsOf(processed_data') = IdsOf(RawData[uploaded_file'])
    /\ pc' = "add" =>
          /\ Len(processed_data') = Len(processed_data) + 1
          /\ Tail(processed_data') = processed_data
          /\ IsManual(Head(processed_data'))

\* C29 (upload gating in the app): a run of the script that is not started
\* by the "Add Email" button leaves a non-empty processed_data as it is,
\* whatever file is in the uploader, and fills an empty one with nothing but
\* the records of the uploaded file, in order; a press of "Add Email" puts
\* exactly one new record at the front and leaves the records that were
\* there unchanged and in their order.
C29_UploadGating == [][UploadGated]_vars

\* An email was added by hand after a file of two rows was ingested: it
\* stands before the two records of the file.
C29_Witness ==
    /\ pc = "add"
    /\ Len(processed_data) = 3
    /\ IsManual(processed_data[1])
    /\ uploaded_file /= NoFile
    /\ IdsOf(SubSeq(processed_data, 2, 3)) = IdsOf(RawData[uploaded_file])

\* A file of two rows is in the uploader, and processed_data is the one
\* email added by hand before: the file was not ingested.
C29_WitnessNotIngested ==
    /\ pc = "run"
    /\ uploaded_file /= NoFile
    /\ IF uploaded_file \in AppFiles THEN Len(RawData[uploaded_file]) = 2 ELSE FALSE
    /\ Len(processed_data) = 1
    /\ IsManual(processed_data[1])

\* --------------------------------------------------------------- C30
\* The filters as the sidebar first shows them: no search text, every
\* offered priority and every offered category selected.
DefaultFilters ==
    /\ search_query = <<>>
    /\ filter_prio = PriorityOptions
    /\ filter_cat = AllCats(processed_data)

\* C30 (default filters hide nothing): with the default filters every
\* record of processed_data is in filtered_emails, whatever its priority
\* (Critical, High, Medium, Low, missing or null).
C30_DefaultFiltersHideNothing ==
    DefaultFilters => filtered_emails = processed_data

\* What the default filters do show: the records whose priority is one of
\* the three offered, or the text "Unknown".
C30_OfferedPrioritiesShown ==
    DefaultFilters =>
        filtered_emails =
            SelectSeq(processed_data,
                      LAMBDA e : e.priority \in PriorityOptions \cup {StrUnknownCap})

\* The one record of a file, to which the prioritizer gave Critical, is
\* not in the list under the default filters.
C30_Witness ==
    /\ DefaultFilters
    /\ Len(processed_data) = 1
    /\ ~IsManual(processed_data[1])
    /\ processed_data[1].priority = PriorityCritical
    /\ processed_data[1].status = StatusProcessed
    /\ filtered_emails = <<>>

\* The one record of a file, for which the graph raised, has no priority
\* and is not in the list under the default filters.
C30_WitnessMissing ==
    /\ DefaultFilters
    /\ Len(processed_data) = 1
    /\ processed_data[1].priority = Missing
    /\ processed_data[1].processing_status = StatusError
    /\ filtered_emails = <<>>

\* Of two records of a file the one with priority High is listed, the one
\* with Critical is not.
C30_WitnessOneOfTwo ==
    /\ DefaultFilters
    /\ Len(processed_data) = 2
    /\ processed_data[1].priority = PriorityCritical
    /\ processed_data[2].priority = PriorityHigh
    /\ filtered_emails = <<processed_data[2]>>
====
